---- MODULE Spec2Model ----
(***************************************************************************)
(* GitMonitorLLM: the commit monitor of src/main.py.                       *)
(*                                                                         *)
(*   Spec        CommitMonitor.run: polling cycles, one monitor_project    *)
(*               task per configured repository, interleaved at the        *)
(*               suspension points of the event loop.                      *)
(*   SpecLedger  DBManager used on its own: any sequence of is_processed   *)
(*               and mark_processed calls.                                 *)
(*   SpecBatch   the batching loop of LLMAnalyzer.analyze_changes applied  *)
(*               to every bounded list of modified files and every budget. *)
(*   SpecAnalyze LLMAnalyzer.analyze_changes with its requests: one post   *)
(*               per batch, every response, and the merge of the results.  *)
(*   SpecCommit  CodeAnalyzer.analyze_commit of src/code_analyzer.py:      *)
(*               context discovery, the fetch loop and the analysis call.  *)
(*   SpecPrompt  the context section of _create_analysis_prompt for every  *)
(*               bounded list of context files.                            *)
(*   SpecExtract _extract_json_response of CodeAnalyzer, ContextDiscovery  *)
(*               and SmartContextAnalyzer on every bounded response text.  *)
(*   SpecTruncate the size limit get_commit_details puts on the contents   *)
(*               it fetches, and the context fetch of                      *)
(*               smart_context_analyzer.py.                                *)
(*   SpecNotify  TelegramNotifier.send_message: the Markdown send and the  *)
(*               plain resend.                                             *)
(*   SpecPipeline one change through analyze_changes of                    *)
(*               smart_context_analyzer.py, stage by stage, and through    *)
(*               the end of monitor_project's loop body.                   *)
(*   SpecDetails get_commit_details' choice of modified files, and         *)
(*               monitor_project when there are none.                      *)
(*   SpecPolling polling cycles over one repository while any number of    *)
(*               commits is pushed between them.                           *)
(***************************************************************************)
EXTENDS Integers, Sequences, FiniteSets, TLC

VARIABLES
    \* ---- CommitMonitor (Spec) ----
    repositories,   \* config["repositories"], a sequence of project paths
    remote,         \* project path -> number of commits the host holds
    pushes,         \* commits pushed since the monitor started
    phase,          \* position of run(): "sleep", "gather", "crashed"
    cycle,          \* polling cycles started so far
    running,        \* the task the event loop is executing, or 0
    task,           \* task index -> the frame of its monitor_project call
    sent,           \* <<project, commit id>> -> send_message calls by kind
    \* ---- DBManager (all specifications) ----
    ledger,         \* the rows of table commits
    dbLast,         \* the last DBManager call and what it returned
    \* ---- batching loop (SpecBatch) ----
    bFiles,         \* modified_files handed to the loop
    bBudget,        \* max_batch_size
    bOut,           \* what analyze_changes sends, once it has run
    \* ---- one analyze_changes call (SpecAnalyze) ----
    aFiles,         \* modified_files of the call
    aFrame,         \* the locals of analyze_changes
    aPosts,         \* the completion calls made so far, in order
    aOut,           \* what analyze_changes returned, once it has
    \* ---- one CodeAnalyzer.analyze_commit call (SpecCommit) ----
    cClient,        \* a repository_client was passed
    cFiles,         \* path -> what get_file_content does for it
    cFrame,         \* the locals of analyze_commit
    cLog,           \* the log lines of the fetch loop
    cOut,           \* what analyze_commit returned, once it has
    \* ---- one function applied on its own (SpecPrompt and after) ----
    uCall,          \* the call: the function's name and its arguments
    uRet            \* what the call returned, once it has

monVars    == <<repositories, remote, pushes, phase, cycle, running, task, sent>>
ledgerVars == <<ledger, dbLast>>
batchVars  == <<bFiles, bBudget, bOut>>
analyzeVars == <<aFiles, aFrame, aPosts, aOut>>
commitVars == <<cClient, cFiles, cFrame, cLog, cOut>>
unitVars   == <<uCall, uRet>>
pureVars   == <<batchVars, analyzeVars, commitVars, unitVars>>
vars       == <<monVars, ledgerVars, pureVars>>

\* Python's None. Texts are sequences of words and NoneV is the one sequence
\* that stands for no text; NoneInt is None where the other values are
\* integers (a length, a column value, a timestamp).
NoneV == <<"None">>
NoneInt == -1

----------------------------------------------------------------------------
(* Bounds of the model *)

\* commits pushed to the repositories, all together, while the monitor runs
MaxPushes == 2
\* polling cycles run() starts
MaxCycles == 2
\* timestamps handed to mark_processed in SpecLedger are 1..MaxTime
MaxTime == 2
\* modified_files handed to the batching loop has at most MaxFiles entries
MaxFiles == 5
\* budgets handed to the batching loop are 0..MaxBudget
MaxBudget == 3
\* one analyze_changes call makes at most MaxBatches completion calls
MaxBatches == 3
\* the discovery asks for at most MaxRequests context files
MaxRequests == 2
\* _create_analysis_prompt is handed at most MaxContext context files
MaxContext == 3
\* a response text handed to _extract_json_response on its own has at most
\* MaxTokens tokens
MaxTokens == 4
\* a file content fetched from the host has at most MaxLength characters
MaxLength == 4
\* max_file_size is 0..MaxSize
MaxSize == 3
\* commit.diff() has at most MaxDiff entries, and max_files is 0..MaxDiff
MaxDiff == 3
\* the repository of SpecPolling comes to hold at most MaxCommits commits:
\* two more than a page of the listing, so that a commit can fall off the
\* page while pushes are still possible
MaxCommits == 23

----------------------------------------------------------------------------
(* DBManager: table commits(project, commit_id, processed, timestamp),     *)
(* PRIMARY KEY (project, commit_id). Every call opens the sqlite file, runs *)
(* one statement and commits; a statement raises only when a constraint of  *)
(* the table rejects it.                                                    *)

Projects == {"g/a", "g/b"}

\* A commit id is a hash; its first 7 characters are what log lines and the
\* error notification show (commit.id[:7]).
CommitId(k) == <<k, 0, 0, 0, 0, 0, 0, k % 2>>
ShortId(id) == SubSeq(id, 1, 7)

Row(p, c, processed, t) ==
    [project |-> p, commit_id |-> c, processed |-> processed, timestamp |-> t]

RowsOf(db, p, c) == {r \in db : r.project = p /\ r.commit_id = c}

\* INSERT without conflict clause: a second row with the key of an existing
\* one violates the primary key, the statement raises and changes nothing.
InsertPlain(db, row) ==
    IF RowsOf(db, row.project, row.commit_id) # {}
    THEN [db |-> db, raised |-> TRUE]
    ELSE [db |-> db \cup {row}, raised |-> FALSE]

\* INSERT into a table that declares no primary key.
InsertNoKey(db, row) == [db |-> db \cup {row}, raised |-> FALSE]

\* REPLACE that forgets the WHERE of its delete: every row goes.
InsertWipe(db, row) == [db |-> {row}, raised |-> FALSE]

\* INSERT OR REPLACE INTO commits ... under PRIMARY KEY (project, commit_id):
\* the rows that conflict on the key are deleted, then the row is inserted.
InsertOrReplace(db, row) ==
    [db |-> (db \ RowsOf(db, row.project, row.commit_id)) \cup {row},
     raised |-> FALSE]

\* mark_processed(self, project, commit_id, timestamp, processed=1)
DefaultProcessed == 1

\* SELECT processed ... ; fetchone(); result[0] if result else None
is_processed(db, p, c) ==
    IF RowsOf(db, p, c) = {} THEN NoneInt
    ELSE (CHOOSE r \in RowsOf(db, p, c) : TRUE).processed

mark_processed(db, p, c, t) == InsertOrReplace(db, Row(p, c, DefaultProcessed, t))

\* Python truthiness of what is_processed returns
Truthy(v) == v # NoneInt /\ v # 0

TimestampOf(db, p, c) ==
    IF RowsOf(db, p, c) = {} THEN NoneInt
    ELSE (CHOOSE r \in RowsOf(db, p, c) : TRUE).timestamp

NoCall == [op |-> "none"]

NotRun == [ran |-> FALSE]

\* A completion call of the OpenAI client that raised
Raised == [raised |-> TRUE, text |-> <<>>]

\* No parsed response yet
NoResult == [type |-> "none", d |-> <<>>]

\* The locals of an analyze_commit call that has not started
IdleCommit ==
    [pc             |-> "start",
     discovery      |-> Raised,     \* what the discovery call did
     context_result |-> NoResult,
     required_files |-> <<>>,
     queue          |-> <<>>,       \* required_files still to fetch
     context_files  |-> <<>>]

\* The locals of an analyze_changes call that has not started
IdleAnalysis ==
    [pc |-> "idle", batched |-> FALSE, requests |-> <<>>,
     i |-> 0,        \* the index of "for i, batch in enumerate(batches)"
     all_descriptions |-> <<>>, all_errors |-> <<>>]

----------------------------------------------------------------------------
(* The batching loop of LLMAnalyzer.analyze_changes                        *)

\* A modified file as get_commit_details builds it. Texts are modelled by
\* their lengths. get_file_content returns None for a file it cannot read:
\* old_content and new_content are then NoneInt.

\* len(x or '')
LenOrEmpty(x) == IF x = NoneInt THEN 0 ELSE x

\* file_size = len(file['diff']) + len(file['new_content'] or '')
\*                                + len(file['old_content'] or '')
FileSize(f) == f.diff + LenOrEmpty(f.new_content) + LenOrEmpty(f.old_content)

\* The loop body that starts the next batch empty: the file that did not fit
\* is lost.
LoopBodyDropping(st, file, max_batch_size) ==
    LET file_size == FileSize(file) IN
    IF st.current_size + file_size > max_batch_size /\ st.current_batch # <<>>
    THEN [batches       |-> Append(st.batches, st.current_batch),
          current_batch |-> <<>>,
          current_size  |-> 0]
    ELSE [batches       |-> st.batches,
          current_batch |-> Append(st.current_batch, file),
          current_size  |-> st.current_size + file_size]

\* The loop body that closes a batch only once it is over the budget: a file
\* that does not fit still joins the batch.
LoopBodyLate(st, file, max_batch_size) ==
    LET file_size == FileSize(file) IN
    IF st.current_size > max_batch_size /\ st.current_batch # <<>>
    THEN [batches       |-> Append(st.batches, st.current_batch),
          current_batch |-> <<file>>,
          current_size  |-> file_size]
    ELSE [batches       |-> st.batches,
          current_batch |-> Append(st.current_batch, file),
          current_size  |-> st.current_size + file_size]

\* The loop body that closes the batch at every file.
LoopBodyEager(st, file, max_batch_size) ==
    LET file_size == FileSize(file) IN
    IF st.current_batch # <<>>
    THEN [batches       |-> Append(st.batches, st.current_batch),
          current_batch |-> <<file>>,
          current_size  |-> file_size]
    ELSE [batches       |-> st.batches,
          current_batch |-> Append(st.current_batch, file),
          current_size  |-> st.current_size + file_size]

\* One iteration of "for file in modified_files" over the loop's locals.
LoopBody(st, file, max_batch_size) ==
    LET file_size == FileSize(file) IN
    IF st.current_size + file_size > max_batch_size /\ st.current_batch # <<>>
    THEN [batches       |-> Append(st.batches, st.current_batch),
          current_batch |-> <<file>>,
          current_size  |-> file_size]
    ELSE [batches       |-> st.batches,
          current_batch |-> Append(st.current_batch, file),
          current_size  |-> st.current_size + file_size]

RECURSIVE LoopFrom(_, _, _, _)
LoopFrom(st, files, i, max_batch_size) ==
    IF i > Len(files) THEN st
    ELSE LoopFrom(LoopBody(st, files[i], max_batch_size), files, i + 1,
                  max_batch_size)

\* batches = [] ... for file in modified_files: ... if current_batch:
\* batches.append(current_batch)
BatchLoop(files, max_batch_size) ==
    LET st == LoopFrom([batches |-> <<>>, current_batch |-> <<>>,
                        current_size |-> 0], files, 1, max_batch_size)
    IN  IF st.current_batch # <<>> THEN Append(st.batches, st.current_batch)
        ELSE st.batches

\* The same loop in the LLMAnalyzer of smart_context_analyzer.py, which reads
\* the contents with file.get.
SmartFileSize(f) ==
    f.diff + LenOrEmpty(f.new_content) + LenOrEmpty(f.old_content)

SmartLoopBody(st, file, max_batch_size) ==
    LET file_size == SmartFileSize(file) IN
    IF st.current_size + file_size > max_batch_size /\ st.current_batch # <<>>
    THEN [batches       |-> Append(st.batches, st.current_batch),
          current_batch |-> <<file>>,
          current_size  |-> file_size]
    ELSE [batches       |-> st.batches,
          current_batch |-> Append(st.current_batch, file),
          current_size  |-> st.current_size + file_size]

RECURSIVE SmartLoopFrom(_, _, _, _)
SmartLoopFrom(st, files, i, max_batch_size) ==
    IF i > Len(files) THEN st
    ELSE SmartLoopFrom(SmartLoopBody(st, files[i], max_batch_size), files,
                       i + 1, max_batch_size)

SmartBatchLoop(files, max_batch_size) ==
    LET st == SmartLoopFrom([batches |-> <<>>, current_batch |-> <<>>,
                             current_size |-> 0], files, 1, max_batch_size)
    IN  IF st.current_batch # <<>> THEN Append(st.batches, st.current_batch)
        ELSE st.batches

\* "if len(modified_files) > 3": this many files or fewer go out in one request
UnbatchedMax == 3

\* An analyze_changes that sends every list whole, in one request.
RequestsWhole(files, max_batch_size) ==
    [batched |-> FALSE, batches |-> <<files>>]

\* The file lists analyze_changes sends to the completion API, in order:
\* the batches of the loop, or the whole list at once.
Requests(files, max_batch_size) ==
    IF Len(files) > UnbatchedMax
    THEN [batched |-> TRUE,  batches |-> BatchLoop(files, max_batch_size)]
    ELSE [batched |-> FALSE, batches |-> <<files>>]

\* The file lists the LLMAnalyzer of smart_context_analyzer.py sends. When
\* context files were fetched, analyze_with_context gets modified_files whole
\* (lines 422-429); otherwise the batches of the loop, or the whole list.
SmartRequests(files, max_batch_size, with_context) ==
    IF with_context THEN <<files>>
    ELSE IF Len(files) > UnbatchedMax
    THEN SmartBatchLoop(files, max_batch_size)
    ELSE <<files>>

RECURSIVE Concat(_)
Concat(ss) == IF ss = <<>> THEN <<>> ELSE Head(ss) \o Concat(Tail(ss))

\* The files the batching specification draws from: sizes 0, 2, 3 and 6.
MkFile(path, diff, old, new) ==
    [path |-> path, diff |-> diff, old_content |-> old, new_content |-> new]

FileUniverse ==
    { MkFile("a.py", 0, NoneInt, NoneInt),
      MkFile("b.py", 1, NoneInt, 1),
      MkFile("c.py", 1, 1, 1),
      MkFile("d.py", 2, 2, 2) }

SeqsUpTo(S, n) == UNION {[1..k -> S] : k \in 1..n}

----------------------------------------------------------------------------
(* The hosting API as the monitor sees it                                  *)

\* REPOSITORIES is split on "," and used as it comes: a path may be listed
\* more than once.
Configs == { <<"g/a", "g/b">>, <<"g/a", "g/a">> }

Tasks == 1..Len(repositories)

\* self.start_time; commit k of a repository was created at time k, so the
\* first commit is not later than start_time and the others are.
StartTime == 1
CreatedAt(k) == k

\* project.commits.list(all=False, per_page=20): the newest commits, newest
\* first, one page.
PerPage == 20

Min(a, b) == IF a < b THEN a ELSE b

Listing(n) == [i \in 1..Min(n, PerPage) |-> n - i + 1]

\* A loop over commits as listed, without reversed().
Forward(s) == s

\* reversed(commits)
Reverse(s) == [i \in 1..Len(s) |-> s[Len(s) - i + 1]]

Range(s) == {s[i] : i \in 1..Len(s)}

\* The filter of fetch_recent_commits without the ledger lookup.
IsNewByTimeOnly(db, project_path, k) == CreatedAt(k) > StartTime

\* "commit_time > start_time and db_manager.is_processed(...) is None"
IsNew(db, project_path, k) ==
    /\ CreatedAt(k) > StartTime
    /\ is_processed(db, project_path, CommitId(k)) = NoneInt

\* new_commits of fetch_recent_commits, in listing order
NewCommits(db, project_path, n) ==
    LET Test(k) == IsNew(db, project_path, k)
    IN  SelectSeq(Listing(n), Test)

----------------------------------------------------------------------------
(* LLMAnalyzer.analyze_changes and _analyze_batch as the monitor calls them *)

\* Texts of the analysis are sequences of words; "" is <<>>.
NoIssues == <<"no-issues">>

\* max_batch_size of main.py
max_batch_size == 120000

\* The marker the prompt asks the model to put before the errors, and a
\* whitespace character.
ErrorsMarker == "Errors:"
Blank == " "

\* The texts the model answers with: words, blanks and markers.
Contents ==
    { <<>>,
      <<"D">>,
      <<"D", Blank, ErrorsMarker, Blank, "E">>,
      <<"D", ErrorsMarker, "no-issues">>,
      <<"D", ErrorsMarker>>,
      <<ErrorsMarker>>,
      <<ErrorsMarker, "E">>,
      <<Blank, ErrorsMarker, Blank, "no-issues", Blank>>,
      <<"D", ErrorsMarker, "E", ErrorsMarker, "F">> }

\* A second answer with errors, so that two batches can report different
\* ones. The monitor's specification draws from Contents alone.
MoreContents == Contents \cup { <<"G", ErrorsMarker, "F">> }

\* What session.post can bring. status 0: no response (connection failure,
\* timeout: the post raises). json: the body is a JSON document. choices:
\* len(result["choices"]), NoneInt without the key. content: the message
\* text of the first choice, NoneV for null.
Response(status, json, choices, content) ==
    [status |-> status, json |-> json, choices |-> choices, content |-> content]

ResponsesWith(contents) ==
    {Response(0, FALSE, NoneInt, <<>>)} \cup
    {Response(st, TRUE, NoneInt, <<>>) : st \in {401, 429, 500}} \cup
    {Response(200, FALSE, NoneInt, <<>>),
     Response(200, TRUE, NoneInt, <<>>),
     Response(200, TRUE, 0, <<>>)} \cup
    {Response(200, TRUE, 1, c) : c \in contents \cup {NoneV}}

Responses == ResponsesWith(Contents)

AllResponses == ResponsesWith(MoreContents)

\* str.strip() on a text of words and blanks
RECURSIVE StripLeft(_)
StripLeft(s) ==
    IF s # <<>> /\ Head(s) = Blank THEN StripLeft(Tail(s)) ELSE s

RECURSIVE StripRight(_)
StripRight(s) ==
    IF s # <<>> /\ s[Len(s)] = Blank THEN StripRight(SubSeq(s, 1, Len(s) - 1))
    ELSE s

Strip(s) == StripRight(StripLeft(s))

\* analysis.split("Ошибки:"): the texts between the markers, in order
RECURSIVE SplitFrom(_, _, _)
SplitFrom(s, i, part) ==
    IF i > Len(s) THEN <<part>>
    ELSE IF s[i] = ErrorsMarker THEN <<part>> \o SplitFrom(s, i + 1, <<>>)
    ELSE SplitFrom(s, i + 1, Append(part, s[i]))

Split(s) == SplitFrom(s, 1, <<>>)

NonePair == [desc |-> NoneV, errors |-> NoneV]

\* _analyze_batch from the post to its return: (None, None) on an exception
\* (no response, a body that is no JSON, a null content), on a status other
\* than 200 and on missing or empty choices; else the text split at the
\* marker, the sentinel standing in for absent errors.
_analyze_batch(resp) ==
    IF resp.status = 0 THEN NonePair
    ELSE IF resp.status # 200 THEN NonePair
    ELSE IF ~resp.json THEN NonePair
    ELSE IF resp.choices = NoneInt \/ resp.choices = 0 THEN NonePair
    ELSE IF resp.content = NoneV THEN NonePair
    ELSE LET parts == Split(resp.content) IN
         [desc   |-> Strip(parts[1]),
          errors |-> IF Len(parts) > 1 THEN Strip(parts[2]) ELSE NoIssues]

\* What one _analyze_batch call can return
CallOutcomes == {_analyze_batch(resp) : resp \in Responses}

\* Python truthiness of a text or None
NonEmpty(x) == x # NoneV /\ x # <<>>

\* The loop body of lines 326-330 without the test for the sentinel.
CollectAll(acc, o) ==
    [all_descriptions |-> IF NonEmpty(o.desc)
                          THEN Append(acc.all_descriptions, o.desc)
                          ELSE acc.all_descriptions,
     all_errors       |-> IF NonEmpty(o.errors)
                          THEN Append(acc.all_errors, o.errors)
                          ELSE acc.all_errors]

\* if desc: all_descriptions.append(desc)
\* if errors and errors != "Нет явных ошибок": all_errors.append(errors)
Collect(acc, o) ==
    [all_descriptions |-> IF NonEmpty(o.desc)
                          THEN Append(acc.all_descriptions, o.desc)
                          ELSE acc.all_descriptions,
     all_errors       |-> IF NonEmpty(o.errors) /\ o.errors # NoIssues
                          THEN Append(acc.all_errors, o.errors)
                          ELSE acc.all_errors]

\* sep.join(parts)
RECURSIVE Join(_, _)
Join(sep, parts) ==
    IF parts = <<>> THEN <<>>
    ELSE IF Len(parts) = 1 THEN Head(parts)
    ELSE Head(parts) \o <<sep>> \o Join(sep, Tail(parts))

\* The modified_files lists get_commit_details hands to the monitor: none,
\* one file, five files that need two batches.
BigFile(path) == MkFile(path, 10000, 10000, 10000)

ModifiedChoices ==
    { <<>>,
      <<BigFile("a.py")>>,
      <<BigFile("a.py"), BigFile("b.py"), BigFile("c.py"), BigFile("d.py"),
        BigFile("e.py")>> }

----------------------------------------------------------------------------
(* CommitMonitor.monitor_project, one frame per task                       *)
(*                                                                         *)
(* python-gitlab and sqlite3 are blocking libraries: a task gives up the   *)
(* event loop only inside the HTTP post of _analyze_batch and inside       *)
(* bot.send_message. "running" is the task that holds the loop between two *)
(* of those points.                                                        *)

\* Each repository holds one commit when the monitor starts.
CommitNumbers == 1..(1 + MaxPushes)

Keys == {<<p, CommitId(k)>> : p \in Projects, k \in CommitNumbers}

NoMessage == [kind |-> "none"]

InitFrame ==
    [pc               |-> "init",
     queue            |-> <<>>,   \* reversed(commits) still to process
     new              |-> {},     \* what fetch_recent_commits returned
     known            |-> {},     \* listed commits the ledger held then
     batched          |-> FALSE,
     requests         |-> <<>>,   \* batches not yet answered, head in flight
     all_descriptions |-> <<>>,
     all_errors       |-> <<>>,
     msg              |-> NoMessage]  \* what send_message is sending

\* The notification of line 548: project, short id, description, and the
\* errors when there are any to show.
ResultMessage(project_path, k, desc, errors) ==
    [kind     |-> "result",
     project  |-> project_path,
     short_id |-> ShortId(CommitId(k)),
     desc     |-> desc,
     errors   |-> IF NonEmpty(errors) /\ errors # NoIssues THEN errors
                  ELSE NoneV]

\* An error text that names the project only.
ErrorMessageNoId(project_path, k) ==
    [kind |-> "error", project |-> project_path, short_id |-> <<>>]

\* The error text of line 564
ErrorMessage(project_path, k) ==
    [kind     |-> "error",
     project  |-> project_path,
     short_id |-> ShortId(CommitId(k))]

\* A branch that forgets its mark_processed call.
MarkSkipped(db, project_path, k) == db

\* self.db_manager.mark_processed(project_path, commit.id, commit_time) at
\* each of the four places monitor_project calls it. commit_time is
\* parse_datetime(commit.created_at), which fetch_recent_commits has parsed
\* before for every commit it returns.
MarkNoFiles(db, project_path, k) ==
    mark_processed(db, project_path, CommitId(k), CreatedAt(k)).db

MarkNoAnalysis(db, project_path, k) ==
    mark_processed(db, project_path, CommitId(k), CreatedAt(k)).db

MarkNotified(db, project_path, k) ==
    mark_processed(db, project_path, CommitId(k), CreatedAt(k)).db

MarkFailed(db, project_path, k) ==
    mark_processed(db, project_path, CommitId(k), CreatedAt(k)).db

\* "continue", or the end of the loop body: the next commit of the queue, or
\* the return of monitor_project.
Advance(f) ==
    LET q == Tail(f.queue) IN
    [f EXCEPT !.queue = q,
              !.pc = IF q = <<>> THEN "done" ELSE "details",
              !.batched = FALSE,
              !.requests = <<>>,
              !.all_descriptions = <<>>,
              !.all_errors = <<>>,
              !.msg = NoMessage]

Holder(i, f) == IF f.pc = "details" THEN i ELSE 0

Bump(s, project_path, k, kind) ==
    [s EXCEPT ![<<project_path, CommitId(k)>>][kind] = @ + 1]

AllStarted == \A j \in Tasks : task[j].pc # "init"

\* What project resolution and listing can do in fetch_recent_commits:
\*   "ok"         both succeed
\*   "not_found"  get_project catches GitlabGetError and returns None
\*   "list_error" commits.list raises inside the try block
\*   "raise"      projects.get raises anything but GitlabGetError
FetchOutcomes == {"ok", "not_found", "list_error", "raise"}

\* monitor_project from its first line to the first suspension: 
\* fetch_recent_commits, "if not commits: return", the head of the loop.
Start(i) ==
    /\ phase = "gather"
    /\ running = 0
    /\ task[i].pc = "init"
    /\ \A j \in 1..(i - 1) : task[j].pc # "init"
    /\ \E outcome \in FetchOutcomes :
        LET project_path == repositories[i]
            commits == IF outcome = "ok"
                       THEN NewCommits(ledger, project_path, remote[project_path])
                       ELSE <<>>
            held == IF outcome = "ok"
                    THEN {k \in Range(Listing(remote[project_path])) :
                            is_processed(ledger, project_path, CommitId(k))
                                # NoneInt}
                    ELSE {}
            f == [InitFrame EXCEPT
                    !.pc = IF outcome = "raise" THEN "raised"
                           ELSE IF commits = <<>> THEN "done" ELSE "details",
                    !.queue = Reverse(commits),
                    !.new = Range(commits),
                    !.known = held]
        IN  /\ task' = [task EXCEPT ![i] = f]
            /\ running' = Holder(i, f)
    /\ UNCHANGED <<repositories, remote, pushes, phase, cycle, sent, ledgerVars, pureVars>>

\* What get_commit_details can do:
\*   "raise"        get_project raises anything but GitlabGetError (line
\*                  213 is outside the try block)
\*   "unavailable"  the project is not found, or the try block fails:
\*                  (None, [], [])
\*   "ok"           modified_files is built
DetailsOutcomes ==
    {[kind |-> "raise"], [kind |-> "unavailable"]} \cup
    {[kind |-> "ok", modified_files |-> m] : m \in ModifiedChoices}

\* The loop body from get_commit_details to the next suspension.
Details(i) ==
    /\ phase = "gather"
    /\ running = i
    /\ task[i].pc = "details"
    /\ \E o \in DetailsOutcomes :
        LET project_path == repositories[i]
            f == task[i]
            k == Head(f.queue)
        IN  IF o.kind = "raise"
            THEN \* except Exception: the error notification
                 /\ task' = [task EXCEPT ![i] =
                        [f EXCEPT !.pc = "send_md",
                                  !.msg = ErrorMessage(project_path, k)]]
                 /\ sent' = Bump(sent, project_path, k, "error")
                 /\ running' = 0
                 /\ UNCHANGED ledger
            ELSE IF o.kind = "unavailable" \/ o.modified_files = <<>>
            THEN \* if not modified_files: mark_processed; continue
                 /\ ledger' = MarkNoFiles(ledger, project_path, k)
                 /\ task' = [task EXCEPT ![i] = Advance(f)]
                 /\ running' = Holder(i, Advance(f))
                 /\ UNCHANGED sent
            ELSE \* analyze_changes up to its first completion call
                 LET r == Requests(o.modified_files, max_batch_size) IN
                 /\ task' = [task EXCEPT ![i] =
                        [f EXCEPT !.pc = "analyze",
                                  !.batched = r.batched,
                                  !.requests = r.batches]]
                 /\ running' = 0
                 /\ UNCHANGED <<ledger, sent>>
    /\ UNCHANGED <<repositories, remote, pushes, phase, cycle, dbLast, pureVars>>

\* The merge that joins whatever errors there are: no sentinel when there
\* are none.
MergeNoSentinel(all_descriptions, all_errors) ==
    [desc   |-> Join(" ", all_descriptions),
     errors |-> Join("\n", all_errors)]

\* final_desc, final_errors of the batched branch
Merge(all_descriptions, all_errors) ==
    [desc   |-> Join(" ", all_descriptions),
     errors |-> IF all_errors = <<>> THEN NoIssues
                ELSE Join("\n", all_errors)]

\* A completion call answers: the rest of analyze_changes, then
\* monitor_project up to the next suspension.
AnalyzeReturn(i) ==
    /\ phase = "gather"
    /\ running = 0
    /\ AllStarted
    /\ task[i].pc = "analyze"
    /\ \E o \in CallOutcomes :
        LET project_path == repositories[i]
            f == task[i]
            k == Head(f.queue)
            descs == Collect(f, o).all_descriptions
            errs == Collect(f, o).all_errors
            rest == Tail(f.requests)
            result == IF f.batched THEN Merge(descs, errs) ELSE o
        IN  IF f.batched /\ rest # <<>>
            THEN \* the next batch's call
                 /\ task' = [task EXCEPT ![i] =
                        [f EXCEPT !.requests = rest,
                                  !.all_descriptions = descs,
                                  !.all_errors = errs]]
                 /\ running' = 0
                 /\ UNCHANGED <<ledger, sent>>
            ELSE IF result.desc = NoneV
            THEN \* if desc is None: mark_processed; continue
                 /\ ledger' = MarkNoAnalysis(ledger, project_path, k)
                 /\ task' = [task EXCEPT ![i] = Advance(f)]
                 /\ running' = Holder(i, Advance(f))
                 /\ UNCHANGED sent
            ELSE \* await self.notifier.send_message(msg)
                 /\ task' = [task EXCEPT ![i] =
                        [f EXCEPT !.pc = "send_md",
                                  !.requests = <<>>,
                                  !.all_descriptions = <<>>,
                                  !.all_errors = <<>>,
                                  !.msg = ResultMessage(project_path, k,
                                              result.desc, result.errors)]]
                 /\ sent' = Bump(sent, project_path, k, "result")
                 /\ running' = 0
                 /\ UNCHANGED ledger
    /\ UNCHANGED <<repositories, remote, pushes, phase, cycle, dbLast, pureVars>>

\* A bot.send_message call answers. The Markdown send failing leads to the
\* plain resend; otherwise send_message returns and monitor_project marks
\* the commit (line 560 after a result, line 568 after an error text).
SendReturn(i) ==
    /\ phase = "gather"
    /\ running = 0
    /\ AllStarted
    /\ task[i].pc \in {"send_md", "send_plain"}
    /\ \E delivered \in BOOLEAN :
        LET project_path == repositories[i]
            f == task[i]
            k == Head(f.queue)
        IN  IF f.pc = "send_md" /\ ~delivered
            THEN /\ task' = [task EXCEPT ![i] = [f EXCEPT !.pc = "send_plain"]]
                 /\ running' = 0
                 /\ UNCHANGED ledger
            ELSE /\ ledger' = IF f.msg.kind = "error"
                              THEN MarkFailed(ledger, project_path, k)
                              ELSE MarkNotified(ledger, project_path, k)
                 /\ task' = [task EXCEPT ![i] = Advance(f)]
                 /\ running' = Holder(i, Advance(f))
    /\ UNCHANGED <<repositories, remote, pushes, phase, cycle, sent, dbLast, pureVars>>

----------------------------------------------------------------------------
(* CommitMonitor.run and the world around it                               *)

\* tasks = [self.monitor_project(project) for project in self.repositories]
StartCycle ==
    /\ phase = "sleep"
    /\ cycle < MaxCycles
    /\ phase' = "gather"
    /\ cycle' = cycle + 1
    /\ task' = [i \in Tasks |-> InitFrame]
    /\ UNCHANGED <<repositories, remote, pushes, running, sent, ledgerVars, pureVars>>

\* A wait that returns as soon as one task is through.
EndCycleEarly ==
    /\ phase = "gather"
    /\ running = 0
    /\ \E i \in Tasks : task[i].pc = "done"
    /\ phase' = "sleep"
    /\ UNCHANGED <<repositories, remote, pushes, cycle, running, task, sent,
                   ledgerVars, pureVars>>

\* await asyncio.gather(*tasks) returns; await asyncio.sleep(check_interval)
EndCycle ==
    /\ phase = "gather"
    /\ running = 0
    /\ \A i \in Tasks : task[i].pc = "done"
    /\ phase' = "sleep"
    /\ UNCHANGED <<repositories, remote, pushes, cycle, running, task, sent,
                   ledgerVars, pureVars>>

\* gather re-raises the exception of a task into run(), which has no
\* handler: main() logs and re-raises, and asyncio.run cancels the tasks
\* still pending.
Crash ==
    /\ phase = "gather"
    /\ running = 0
    /\ AllStarted
    /\ \E i \in Tasks : task[i].pc = "raised"
    /\ phase' = "crashed"
    /\ task' = [i \in Tasks |->
                  IF task[i].pc \in {"done", "raised"} THEN task[i]
                  ELSE [task[i] EXCEPT !.pc = "cancelled"]]
    /\ UNCHANGED <<repositories, remote, pushes, cycle, running, sent, ledgerVars,
                   pureVars>>

\* Somebody pushes a commit to a repository. The monitor reads the host's
\* commit list in fetch_recent_commits only, so a push made after the last
\* listing of a cycle is taken at the end of that cycle.
Push(p) ==
    /\ running = 0
    /\ phase = "sleep" \/ (phase = "gather" /\ ~AllStarted)
    /\ pushes < MaxPushes
    /\ pushes' = pushes + 1
    /\ remote' = [remote EXCEPT ![p] = @ + 1]
    /\ UNCHANGED <<repositories, phase, cycle, running, task, sent,
                   ledgerVars, pureVars>>

Init ==
    /\ repositories \in Configs
    /\ remote = [p \in Projects |-> 1]
    /\ pushes = 0
    /\ phase = "sleep"
    /\ cycle = 0
    /\ running = 0
    /\ task = [i \in Tasks |-> InitFrame]
    /\ sent = [key \in Keys |-> [result |-> 0, error |-> 0]]
    /\ ledger = {}
    /\ dbLast = NoCall
    /\ bFiles = <<>>
    /\ bBudget = 0
    /\ bOut = NotRun
    /\ aFiles = <<>>
    /\ aFrame = IdleAnalysis
    /\ aPosts = <<>>
    /\ aOut = NotRun
    /\ cClient = FALSE
    /\ cFiles = <<>>
    /\ cFrame = IdleCommit
    /\ cLog = <<>>
    /\ cOut = NotRun
    /\ uCall = NoCall
    /\ uRet = NotRun

Next ==
    \/ StartCycle
    \/ EndCycle
    \/ Crash
    \/ \E p \in Projects : Push(p)
    \/ \E i \in Tasks : Start(i)
    \/ \E i \in Tasks : Details(i)
    \/ \E i \in Tasks : AnalyzeReturn(i)
    \/ \E i \in Tasks : SendReturn(i)

Spec == Init /\ [][Next]_vars

----------------------------------------------------------------------------
(* DBManager on its own: any caller, any order of calls                    *)

LedgerKeys == {<<p, CommitId(k)>> : p \in Projects, k \in {1, 2}}

Timestamps == 1..MaxTime

\* DBManager.__init__ -> _init_db: CREATE TABLE IF NOT EXISTS keeps the rows
\* of a table that exists.
InitDbCall ==
    /\ dbLast' = [op |-> "_init_db"]
    /\ UNCHANGED <<ledger, monVars, pureVars>>

IsProcessedCall(key) ==
    /\ dbLast' = [op        |-> "is_processed",
                  project   |-> key[1],
                  commit_id |-> key[2],
                  result    |-> is_processed(ledger, key[1], key[2])]
    /\ UNCHANGED <<ledger, monVars, pureVars>>

MarkProcessedCall(key, t) ==
    LET m == mark_processed(ledger, key[1], key[2], t) IN
    /\ ledger' = m.db
    /\ dbLast' = [op        |-> "mark_processed",
                  project   |-> key[1],
                  commit_id |-> key[2],
                  timestamp |-> t,
                  before    |-> TimestampOf(ledger, key[1], key[2]),
                  raised    |-> m.raised]
    /\ UNCHANGED <<monVars, pureVars>>

InitLedger ==
    /\ repositories = <<>>
    /\ remote = [p \in Projects |-> 1]
    /\ pushes = 0
    /\ phase = "sleep"
    /\ cycle = 0
    /\ running = 0
    /\ task = <<>>
    /\ sent = [key \in Keys |-> [result |-> 0, error |-> 0]]
    /\ ledger = {}
    /\ dbLast = NoCall
    /\ bFiles = <<>>
    /\ bBudget = 0
    /\ bOut = NotRun
    /\ aFiles = <<>>
    /\ aFrame = IdleAnalysis
    /\ aPosts = <<>>
    /\ aOut = NotRun
    /\ cClient = FALSE
    /\ cFiles = <<>>
    /\ cFrame = IdleCommit
    /\ cLog = <<>>
    /\ cOut = NotRun
    /\ uCall = NoCall
    /\ uRet = NotRun

NextLedger ==
    \/ InitDbCall
    \/ \E key \in LedgerKeys : IsProcessedCall(key)
    \/ \E key \in LedgerKeys, t \in Timestamps : MarkProcessedCall(key, t)

SpecLedger == InitLedger /\ [][NextLedger]_vars

----------------------------------------------------------------------------
(* analyze_changes' choice of requests on every bounded input              *)

PlanRequests ==
    /\ bOut = NotRun
    /\ bOut' = [ran     |-> TRUE,
                batched |-> Requests(bFiles, bBudget).batched,
                batches |-> Requests(bFiles, bBudget).batches,
                smart_batches |-> SmartRequests(bFiles, bBudget, FALSE),
                smart_context |-> SmartRequests(bFiles, bBudget, TRUE)]
    /\ UNCHANGED <<bFiles, bBudget, monVars, ledgerVars, analyzeVars, commitVars, unitVars>>

InitBatch ==
    /\ repositories = <<>>
    /\ remote = [p \in Projects |-> 1]
    /\ pushes = 0
    /\ phase = "sleep"
    /\ cycle = 0
    /\ running = 0
    /\ task = <<>>
    /\ sent = [key \in Keys |-> [result |-> 0, error |-> 0]]
    /\ ledger = {}
    /\ dbLast = NoCall
    /\ bFiles \in SeqsUpTo(FileUniverse, MaxFiles)
    /\ bBudget \in 0..MaxBudget
    /\ bOut = NotRun
    /\ aFiles = <<>>
    /\ aFrame = IdleAnalysis
    /\ aPosts = <<>>
    /\ aOut = NotRun
    /\ cClient = FALSE
    /\ cFiles = <<>>
    /\ cFrame = IdleCommit
    /\ cLog = <<>>
    /\ cOut = NotRun
    /\ uCall = NoCall
    /\ uRet = NotRun

NextBatch == PlanRequests

SpecBatch == InitBatch /\ [][NextBatch]_vars

----------------------------------------------------------------------------
(* One analyze_changes call of main.py, completion call by completion call *)

\* A file whose diff alone fills the budget, and one that fits beside others.
HugeFile(path) == MkFile(path, max_batch_size, NoneInt, NoneInt)
SmallFile(path) == MkFile(path, 100, 100, 100)

RECURSIVE Repeat(_, _)
Repeat(x, n) == IF n <= 0 THEN <<>> ELSE <<x>> \o Repeat(x, n - 1)

\* modified_files of more than 3 files that the loop cuts into n batches
ChangeOf(n) ==
    Repeat(HugeFile("h.py"), n - 1) \o
    Repeat(SmallFile("s.py"), IF n < 4 THEN 5 - n ELSE 1)

AnalyzeInputs ==
    {<<SmallFile("s.py")>>} \cup {ChangeOf(n) : n \in 1..MaxBatches}

\* The same merge in the LLMAnalyzer of smart_context_analyzer.py (lines
\* 462-481), whose _analyze_batch treats the response as main.py's does.
SmartCollect(acc, o) ==
    [all_descriptions |-> IF NonEmpty(o.desc)
                          THEN Append(acc.all_descriptions, o.desc)
                          ELSE acc.all_descriptions,
     all_errors       |-> IF NonEmpty(o.errors) /\ o.errors # NoIssues
                          THEN Append(acc.all_errors, o.errors)
                          ELSE acc.all_errors]

RECURSIVE SmartCollectFrom(_, _, _)
SmartCollectFrom(acc, posts, i) ==
    IF i > Len(posts) THEN acc
    ELSE SmartCollectFrom(SmartCollect(acc, posts[i].result), posts, i + 1)

SmartMerge(all_descriptions, all_errors) ==
    [desc   |-> Join(" ", all_descriptions),
     errors |-> IF all_errors = <<>> THEN NoIssues
                ELSE Join("\n", all_errors)]

SmartResult(batched, posts) ==
    IF batched
    THEN LET acc == SmartCollectFrom([all_descriptions |-> <<>>,
                                      all_errors |-> <<>>], posts, 1)
         IN  SmartMerge(acc.all_descriptions, acc.all_errors)
    ELSE posts[1].result

\* analyze_changes up to its first completion call
EnterAnalyze ==
    /\ aFrame.pc = "idle"
    /\ LET r == Requests(aFiles, max_batch_size) IN
       aFrame' = [IdleAnalysis EXCEPT !.pc = "call",
                                      !.batched = r.batched,
                                      !.requests = r.batches,
                                      !.i = 1]
    /\ UNCHANGED <<aFiles, aPosts, aOut, monVars, ledgerVars, batchVars,
                   commitVars, unitVars>>

\* The completion API answers the post of the batch in flight:
\* _analyze_batch returns, and analyze_changes goes on to the next batch or
\* returns.
BatchReturn ==
    /\ aFrame.pc = "call"
    /\ \E resp \in AllResponses :
        LET o == _analyze_batch(resp)
            acc == Collect(aFrame, o)
            rest == Tail(aFrame.requests)
            post == [batch    |-> aFrame.i,
                     files    |-> Head(aFrame.requests),
                     response |-> resp,
                     result   |-> o]
        IN  /\ aPosts' = Append(aPosts, post)
            /\ IF aFrame.batched /\ rest # <<>>
               THEN /\ aFrame' = [aFrame EXCEPT
                            !.requests = rest,
                            !.i = @ + 1,
                            !.all_descriptions = acc.all_descriptions,
                            !.all_errors = acc.all_errors]
                    /\ UNCHANGED aOut
               ELSE LET result == IF aFrame.batched
                                  THEN Merge(acc.all_descriptions,
                                             acc.all_errors)
                                  ELSE o
                    IN  /\ aFrame' = [aFrame EXCEPT
                                !.pc = "returned",
                                !.requests = rest,
                                !.all_descriptions = acc.all_descriptions,
                                !.all_errors = acc.all_errors]
                        /\ aOut' = [ran    |-> TRUE,
                                    desc   |-> result.desc,
                                    errors |-> result.errors,
                                    smart  |-> SmartResult(aFrame.batched,
                                                           aPosts')]
    /\ UNCHANGED <<aFiles, monVars, ledgerVars, batchVars, commitVars, unitVars>>

InitAnalyze ==
    /\ repositories = <<>>
    /\ remote = [p \in Projects |-> 1]
    /\ pushes = 0
    /\ phase = "sleep"
    /\ cycle = 0
    /\ running = 0
    /\ task = <<>>
    /\ sent = [key \in Keys |-> [result |-> 0, error |-> 0]]
    /\ ledger = {}
    /\ dbLast = NoCall
    /\ bFiles = <<>>
    /\ bBudget = 0
    /\ bOut = NotRun
    /\ aFiles \in AnalyzeInputs
    /\ aFrame = IdleAnalysis
    /\ aPosts = <<>>
    /\ aOut = NotRun
    /\ cClient = FALSE
    /\ cFiles = <<>>
    /\ cFrame = IdleCommit
    /\ cLog = <<>>
    /\ cOut = NotRun
    /\ uCall = NoCall
    /\ uRet = NotRun

NextAnalyze ==
    \/ EnterAnalyze
    \/ BatchReturn

SpecAnalyze == InitAnalyze /\ [][NextAnalyze]_vars

----------------------------------------------------------------------------
(* The model's answers as text, and _extract_json_response                 *)
(*                                                                         *)
(* A response text is a sequence of tokens: a code fence, a brace, a       *)
(* newline or tab, a stretch of prose, a JSON array, a run of opening      *)
(* brackets longer than the interpreter's recursion limit, or one member   *)
(* of a JSON object ("key": value). A member or an array is written        *)
(*   "dq"     with double quotes, no quote character inside its strings;   *)
(*   "sq"     with single quotes, no quote character inside its strings;   *)
(*   "py"     as Python prints a dictionary: single quotes, but double     *)
(*            quotes around a string that holds an apostrophe;             *)
(*   "broken" with quotes that do not pair up.                             *)

Tok(t, key, quote, value) ==
    [t |-> t, key |-> key, quote |-> quote, value |-> value]

Fence   == Tok("fence", "", "", <<>>)
Open    == Tok("open", "", "", <<>>)
Close   == Tok("close", "", "", <<>>)
Newline == Tok("nl", "", "", <<>>)
Prose   == Tok("prose", "", "", <<>>)
Deep    == Tok("deep", "", "", <<>>)
ArrayDoc(quote) == Tok("array", "", quote, <<>>)
Member(key, quote, value) == Tok("member", key, quote, value)

\* message.content is null
NoneText == <<Tok("None", "", "", <<>>)>>

\* The first index from i on where the token is tok, 0 when there is none
RECURSIVE IndexFrom(_, _, _)
IndexFrom(text, tok, i) ==
    IF i > Len(text) THEN 0
    ELSE IF text[i] = tok THEN i
    ELSE IndexFrom(text, tok, i + 1)

RECURSIVE LastIndex(_, _, _)
LastIndex(text, tok, i) ==
    IF i < 1 THEN 0
    ELSE IF text[i] = tok THEN i
    ELSE LastIndex(text, tok, i - 1)

\* \s* at both ends of the group of the fence pattern
RECURSIVE TrimLeft(_)
TrimLeft(text) ==
    IF text # <<>> /\ Head(text) = Newline THEN TrimLeft(Tail(text)) ELSE text

RECURSIVE TrimRight(_)
TrimRight(text) ==
    IF text # <<>> /\ text[Len(text)] = Newline
    THEN TrimRight(SubSeq(text, 1, Len(text) - 1))
    ELSE text

NoMatch == [found |-> FALSE, group |-> <<>>]

\* re.search(r'```(?:json)?\s*(.*?)\s*```', response_text, re.DOTALL): from
\* the first fence to the nearest fence after it
FenceSearch(text) ==
    LET a == IndexFrom(text, Fence, 1)
        b == IF a = 0 THEN 0 ELSE IndexFrom(text, Fence, a + 1)
    IN  IF b = 0 THEN NoMatch
        ELSE [found |-> TRUE,
              group |-> TrimRight(TrimLeft(SubSeq(text, a + 1, b - 1)))]

\* re.search(r'({[\s\S]*})', response_text): from the first opening brace
\* to the last closing brace after it
BraceSearch(text) ==
    LET a == IndexFrom(text, Open, 1)
        b == LastIndex(text, Close, Len(text))
    IN  IF a = 0 \/ b < a THEN NoMatch
        ELSE [found |-> TRUE, group |-> SubSeq(text, a, b)]

\* response_json of the primary parse
Candidate(text) ==
    IF FenceSearch(text).found THEN FenceSearch(text).group
    ELSE IF BraceSearch(text).found THEN BraceSearch(text).group
    ELSE text

\* A parsed JSON value: an object (d maps its keys to their values), an
\* array, or nothing because the text is no JSON document.
Invalid == [ok |-> FALSE, type |-> "none", d |-> <<>>]

\* json.loads raised RecursionError, which is no JSONDecodeError
TooDeep == [ok |-> FALSE, type |-> "recursion", d |-> <<>>]

\* An exception that leaves the function
Exception == [type |-> "exception", d |-> <<>>]

IsSpace(tok) == tok.t = "nl"
NotSpace(tok) == ~IsSpace(tok)

\* The value of the last member with the key: json.loads keeps the last of
\* two members with one key.
RECURSIVE LastValue(_, _, _)
LastValue(members, key, i) ==
    IF members[i].key = key THEN members[i].value
    ELSE LastValue(members, key, i - 1)

DictOf(members) ==
    [k \in {members[i].key : i \in 1..Len(members)} |->
        LastValue(members, k, Len(members))]

\* json.loads: whitespace between tokens is skipped; a document is one
\* array, or an object of members in double quotes, and nothing else. The
\* scanner goes down a run of opening brackets before it sees what follows.
JsonLoads(text) ==
    LET body == SelectSeq(text, NotSpace)
        n == Len(body)
    IN  IF n >= 1 /\ body[1] = Deep
        THEN TooDeep
        ELSE IF n = 1 /\ body[1] = ArrayDoc("dq")
        THEN [ok |-> TRUE, type |-> "list", d |-> <<>>]
        ELSE IF /\ n >= 2
                /\ body[1] = Open
                /\ body[n] = Close
                /\ \A i \in 2..(n - 1) :
                        body[i].t = "member" /\ body[i].quote = "dq"
        THEN [ok |-> TRUE, type |-> "dict",
              d |-> DictOf(SubSeq(body, 2, n - 1))]
        ELSE Invalid

\* re.sub(r'[\n\r\t]', '', response_text), then replace("'", '"'): every
\* single quote becomes a double quote, an apostrophe inside a string too
Requote(tok) ==
    IF tok.quote = "sq" THEN [tok EXCEPT !.quote = "dq"]
    ELSE IF tok.quote = "py" THEN [tok EXCEPT !.quote = "broken"]
    ELSE tok

Clean(text) ==
    LET kept == SelectSeq(text, NotSpace)
    IN  [i \in 1..Len(kept) |-> Requote(kept[i])]

\* dict with key k set to v when it has no key k
WithDefault(d, k, v) ==
    IF k \in DOMAIN d THEN d
    ELSE [x \in DOMAIN d \cup {k} |-> IF x = k THEN v ELSE d[x]]

----------------------------------------------------------------------------
(* ContextDiscovery.discover_required_files (context_discovery.py)         *)

\* One entry of required_files. priority NoneInt: the entry has no
\* "priority" key.
Request(path, priority) == [path |-> path, priority |-> priority]

RequestUniverse ==
    { Request("m.py", 1), Request("s.py", 4), Request("m.py", NoneInt) }

RequestLists == {<<>>} \cup SeqsUpTo(RequestUniverse, MaxRequests)

\* What the discovery model can answer with.
DiscoveryTexts ==
    UNION {
        { <<Prose, Fence, Newline, Open,
            Member("required_files", "dq", rs),
            Member("explanation", "dq", <<"why">>), Close, Newline, Fence>>,
          <<Prose, Open, Member("required_files", "dq", rs), Close, Prose>>,
          <<Open, Newline, Member("required_files", "sq", rs), Newline, Close>>,
          <<Fence, Open, Member("required_files", "sq", rs), Close, Fence>> }
        : rs \in RequestLists } \cup
    { <<>>,
      <<Prose>>,
      <<Open, Member("explanation", "dq", <<"why">>), Close>>,
      <<ArrayDoc("dq")>>,
      <<ArrayDoc("sq")>>,
      <<Deep, Open, Member("explanation", "sq", <<"why">>), Close>>,
      NoneText }

\* The dictionary both failure exits return
DiscoveryFailure(explanation) ==
    [type |-> "dict",
     d    |-> [required_files |-> <<>>, explanation |-> explanation]]

\* ContextDiscovery._extract_json_response. A text of None makes re.search
\* raise, an array makes result["required_files"] = [] raise: both land in
\* "except Exception". The repair parse returns what it parsed as it is,
\* and its handler catches json.JSONDecodeError alone.
DiscoveryExtract(response_text) ==
    IF response_text = NoneText
    THEN DiscoveryFailure(<<"unexpected-error">>)
    ELSE LET result == JsonLoads(Candidate(response_text)) IN
         IF result.ok
         THEN IF result.type = "dict"
              THEN [type |-> "dict",
                    d    |-> WithDefault(
                                WithDefault(result.d, "required_files", <<>>),
                                "explanation", <<"not-provided">>)]
              ELSE DiscoveryFailure(<<"unexpected-error">>)
         ELSE IF result = TooDeep
         THEN DiscoveryFailure(<<"unexpected-error">>)
         ELSE LET cleaned == JsonLoads(Clean(response_text)) IN
              IF cleaned.ok
              THEN [type |-> cleaned.type, d |-> cleaned.d]
              ELSE IF cleaned = TooDeep
              THEN Exception
              ELSE DiscoveryFailure(<<"parse-error">>)

\* What the chat.completions.create call of the discovery does: it raises
\* (Raised, also when the response has no choices), or it brings a text.
Answered(text) == [raised |-> FALSE, text |-> text]

DiscoveryOutcomes == {Raised} \cup {Answered(t) : t \in DiscoveryTexts}

\* A discovery whose call is not inside the try block: the exception goes
\* to the caller.
DiscoverUnguarded(outcome) ==
    IF outcome.raised THEN Exception
    ELSE DiscoveryExtract(outcome.text)

\* discover_required_files from the create call on (the prompt is built
\* from modified_files that all have a path). response_text[:200] of the
\* debug line raises when the content is None.
discover_required_files(outcome) ==
    IF \/ outcome.raised
       \/ outcome.text = NoneText
       \/ DiscoveryExtract(outcome.text).type = "exception"
    THEN DiscoveryFailure(<<"call-error">>)
    ELSE DiscoveryExtract(outcome.text)

----------------------------------------------------------------------------
(* CodeAnalyzer.analyze_commit (code_analyzer.py)                          *)

AnalysisTexts ==
    { <<Fence, Open, Member("issues", "dq", <<"bug">>),
        Member("summary", "dq", <<"sum">>), Close, Fence>>,
      <<Open, Member("summary", "dq", <<"sum">>), Close>>,
      <<Open, Newline, Member("issues", "sq", <<"bug">>), Close>>,
      <<Prose>>,
      <<Deep, Open, Member("summary", "sq", <<"sum">>), Close>>,
      NoneText }

AnalysisFailure(summary) ==
    [type |-> "dict", d |-> [issues |-> <<>>, summary |-> summary]]

\* CodeAnalyzer._extract_json_response
AnalysisExtract(response_text) ==
    IF response_text = NoneText
    THEN AnalysisFailure(<<"unexpected-error">>)
    ELSE LET result == JsonLoads(Candidate(response_text)) IN
         IF result.ok
         THEN IF result.type = "dict"
              THEN [type |-> "dict",
                    d    |-> WithDefault(
                                WithDefault(result.d, "issues", <<>>),
                                "summary", <<"no-details">>)]
              ELSE AnalysisFailure(<<"unexpected-error">>)
         ELSE IF result = TooDeep
         THEN AnalysisFailure(<<"unexpected-error">>)
         ELSE LET cleaned == JsonLoads(Clean(response_text)) IN
              IF cleaned.ok
              THEN [type |-> cleaned.type, d |-> cleaned.d]
              ELSE IF cleaned = TooDeep
              THEN Exception
              ELSE AnalysisFailure(<<"parse-error">>)

AnalysisOutcomes == {Raised} \cup {Answered(t) : t \in AnalysisTexts}

\* _analyze_code_changes from the create call on
_analyze_code_changes(outcome) ==
    IF \/ outcome.raised
       \/ outcome.text = NoneText
       \/ AnalysisExtract(outcome.text).type = "exception"
    THEN AnalysisFailure(<<"call-error">>)
    ELSE AnalysisExtract(outcome.text)

\* modified_files of the commit under analysis
CommitFiles == <<SmallFile("v.py")>>

\* What repository_client.get_file_content does for a path: it returns a
\* text, an empty text or None, or it raises.
FileStates == {"text", "empty", "none", "raise"}

ContextPaths == {r.path : r \in RequestUniverse}

\* file_info.get("priority", 5)
DefaultPriority == 5
PriorityOf(file_info) ==
    IF file_info.priority = NoneInt THEN DefaultPriority
    ELSE file_info.priority

\* "if priority <= 2" of the except branch
HighPriority == 2

LogEntry(op, path) == [op |-> op, path |-> path]

\* A fetch loop that takes whatever did not raise.
FetchAny(context_files, file_info, state) ==
    IF state # "raise"
    THEN Append(context_files, [path     |-> file_info.path,
                                content  |-> state,
                                priority |-> PriorityOf(file_info)])
    ELSE context_files

\* The body of "for file_info in required_files": context_files after it
FetchContext(context_files, file_info, state) ==
    IF state = "text"
    THEN Append(context_files, [path     |-> file_info.path,
                                content  |-> state,
                                priority |-> PriorityOf(file_info)])
    ELSE context_files

\* ... and what it logs
FetchLog(file_info, state) ==
    IF state = "text" THEN <<LogEntry("info_fetched", file_info.path)>>
    ELSE IF state = "raise"
    THEN <<LogEntry("error_fetch", file_info.path)>> \o
         (IF PriorityOf(file_info) <= HighPriority
          THEN <<LogEntry("warning_high_priority", file_info.path)>>
          ELSE <<>>)
    ELSE <<LogEntry("warning_no_content", file_info.path)>>

CommitResult(status, analysed, context, analysis, has_key) ==
    [ran              |-> TRUE,
     status           |-> status,
     analysed         |-> analysed,  \* _analyze_code_changes was called
     analysis_context |-> context,   \* with these context files
     analysis         |-> analysis,
     has_context_files |-> has_key,  \* the result has key "context_files"
     context_files    |-> IF has_key
                          THEN [i \in 1..Len(context) |-> context[i].path]
                          ELSE <<>>]

\* Step 1 of analyze_commit. A context_result that is no dictionary has no
\* get(): the exception lands in the except block of line 125.
DiscoverStep ==
    /\ cFrame.pc = "start"
    /\ \E o \in DiscoveryOutcomes :
        LET context_result == discover_required_files(o)
            required_files ==
                IF context_result.type = "dict"
                   /\ "required_files" \in DOMAIN context_result.d
                THEN context_result.d["required_files"]
                ELSE <<>>
            f == [cFrame EXCEPT !.discovery = o,
                                !.context_result = context_result,
                                !.required_files = required_files]
        IN  IF context_result.type # "dict"
            THEN /\ cFrame' = [f EXCEPT !.pc = "returned"]
                 /\ cOut' = CommitResult("error", FALSE, <<>>, NoResult, FALSE)
            ELSE /\ cFrame' =
                    [f EXCEPT !.pc = IF required_files # <<>> /\ cClient
                                     THEN "fetch" ELSE "analyze",
                              !.queue = IF cClient THEN required_files
                                        ELSE <<>>]
                 /\ UNCHANGED cOut
    /\ UNCHANGED <<cClient, cFiles, cLog, monVars, ledgerVars, batchVars,
                   analyzeVars, unitVars>>

\* Step 2: one pass of the loop over required_files
FetchStep ==
    /\ cFrame.pc = "fetch"
    /\ LET file_info == Head(cFrame.queue)
           state == cFiles[file_info.path]
           rest == Tail(cFrame.queue)
       IN  /\ cFrame' = [cFrame EXCEPT
                !.context_files = FetchContext(@, file_info, state),
                !.queue = rest,
                !.pc = IF rest = <<>> THEN "analyze" ELSE "fetch"]
           /\ cLog' = cLog \o FetchLog(file_info, state)
    /\ UNCHANGED <<cClient, cFiles, cOut, monVars, ledgerVars, batchVars,
                   analyzeVars, unitVars>>

\* Step 3, or the analysis of line 79 when nothing is required
AnalyzeStep ==
    /\ cFrame.pc = "analyze"
    /\ \E o \in AnalysisOutcomes :
        cOut' = CommitResult("completed", TRUE, cFrame.context_files,
                             _analyze_code_changes(o),
                             cFrame.required_files # <<>>)
    /\ cFrame' = [cFrame EXCEPT !.pc = "returned"]
    /\ UNCHANGED <<cClient, cFiles, cLog, monVars, ledgerVars, batchVars,
                   analyzeVars, unitVars>>

InitCommit ==
    /\ repositories = <<>>
    /\ remote = [p \in Projects |-> 1]
    /\ pushes = 0
    /\ phase = "sleep"
    /\ cycle = 0
    /\ running = 0
    /\ task = <<>>
    /\ sent = [key \in Keys |-> [result |-> 0, error |-> 0]]
    /\ ledger = {}
    /\ dbLast = NoCall
    /\ bFiles = <<>>
    /\ bBudget = 0
    /\ bOut = NotRun
    /\ aFiles = <<>>
    /\ aFrame = IdleAnalysis
    /\ aPosts = <<>>
    /\ aOut = NotRun
    /\ cClient \in BOOLEAN
    /\ cFiles \in [ContextPaths -> FileStates]
    /\ cFrame = IdleCommit
    /\ cLog = <<>>
    /\ cOut = NotRun
    /\ uCall = NoCall
    /\ uRet = NotRun

NextCommit ==
    \/ DiscoverStep
    \/ FetchStep
    \/ AnalyzeStep

SpecCommit == InitCommit /\ [][NextCommit]_vars

----------------------------------------------------------------------------
(* Functions applied on their own                                          *)

\* Every variable of the other specifications at rest
UnitIdle ==
    /\ repositories = <<>>
    /\ remote = [p \in Projects |-> 1]
    /\ pushes = 0
    /\ phase = "sleep"
    /\ cycle = 0
    /\ running = 0
    /\ task = <<>>
    /\ sent = [key \in Keys |-> [result |-> 0, error |-> 0]]
    /\ ledger = {}
    /\ dbLast = NoCall
    /\ bFiles = <<>>
    /\ bBudget = 0
    /\ bOut = NotRun
    /\ aFiles = <<>>
    /\ aFrame = IdleAnalysis
    /\ aPosts = <<>>
    /\ aOut = NotRun
    /\ cClient = FALSE
    /\ cFiles = [p \in ContextPaths |-> "none"]
    /\ cFrame = IdleCommit
    /\ cLog = <<>>
    /\ cOut = NotRun

UnitFrame == <<monVars, ledgerVars, batchVars, analyzeVars, commitVars>>

----------------------------------------------------------------------------
(* _create_analysis_prompt: the context section (SpecPrompt)               *)

\* A context file as the prompt builder gets it. priority NoneInt: the
\* dictionary has no "priority" key.
ContextFile(path, priority) ==
    [path |-> path, content |-> "text", priority |-> priority]

ContextUniverse ==
    {ContextFile(p, n) : p \in {"m.py", "s.py"}, n \in {1, 3, 5, NoneInt}}

ContextLists == {<<>>} \cup SeqsUpTo(ContextUniverse, MaxContext)

\* An insertion that puts x ahead of the entries with its own key
InsertAhead(sorted, x) ==
    LET n == Cardinality({i \in 1..Len(sorted) :
                            PriorityOf(sorted[i]) < PriorityOf(x)})
    IN  SubSeq(sorted, 1, n) \o <<x>> \o SubSeq(sorted, n + 1, Len(sorted))

\* sorted() is stable: x goes behind every entry whose key is not greater
InsertByPriority(sorted, x) ==
    LET n == Cardinality({i \in 1..Len(sorted) :
                            PriorityOf(sorted[i]) <= PriorityOf(x)})
    IN  SubSeq(sorted, 1, n) \o <<x>> \o SubSeq(sorted, n + 1, Len(sorted))

\* sorted(context_files, key=lambda x: x.get("priority", 5))
RECURSIVE SortedContext(_)
SortedContext(context_files) ==
    IF context_files = <<>> THEN <<>>
    ELSE InsertByPriority(
            SortedContext(SubSeq(context_files, 1, Len(context_files) - 1)),
            context_files[Len(context_files)])

\* The heading of context file i of the prompt. shown NoneInt: the heading
\* has no "(Приоритет: ...)" part.
Heading(i, file, shown) ==
    [index |-> i, path |-> file.path, priority |-> shown,
     content |-> file.content]

\* CodeAnalyzer._create_analysis_prompt, the part after the modified files
CodePromptContext(context_files) ==
    LET sorted_context == SortedContext(context_files)
    IN  [i \in 1..Len(sorted_context) |->
            Heading(i, sorted_context[i], PriorityOf(sorted_context[i]))]

\* SmartContextAnalyzer._create_analysis_prompt, the same part
SmartPromptContext(context_files) ==
    LET sorted_context == SortedContext(context_files)
    IN  [i \in 1..Len(sorted_context) |->
            Heading(i, sorted_context[i], sorted_context[i].priority)]

PromptCall(op, context_files) ==
    [op |-> op, context_files |-> context_files]

CodePrompt ==
    /\ uCall.op = "CodeAnalyzer._create_analysis_prompt"
    /\ uRet = NotRun
    /\ uRet' = [ran |-> TRUE,
                sorted_context |-> SortedContext(uCall.context_files),
                prompt |-> CodePromptContext(uCall.context_files)]
    /\ UNCHANGED <<uCall, UnitFrame>>

SmartPrompt ==
    /\ uCall.op = "SmartContextAnalyzer._create_analysis_prompt"
    /\ uRet = NotRun
    /\ uRet' = [ran |-> TRUE,
                sorted_context |-> SortedContext(uCall.context_files),
                prompt |-> SmartPromptContext(uCall.context_files)]
    /\ UNCHANGED <<uCall, UnitFrame>>

InitPrompt ==
    /\ UnitIdle
    /\ uCall \in {PromptCall(op, fs) :
                    op \in {"CodeAnalyzer._create_analysis_prompt",
                            "SmartContextAnalyzer._create_analysis_prompt"},
                    fs \in ContextLists}
    /\ uRet = NotRun

NextPrompt ==
    \/ CodePrompt
    \/ SmartPrompt

SpecPrompt == InitPrompt /\ [][NextPrompt]_vars

----------------------------------------------------------------------------
(* _extract_json_response of the three classes (SpecExtract)               *)

SmartFailure(error) == [type |-> "dict", d |-> [error |-> error]]

\* SmartContextAnalyzer._extract_json_response: what either parse reads is
\* returned as it is.
SmartExtract(response_text) ==
    IF response_text = NoneText
    THEN SmartFailure(<<"unexpected-error">>)
    ELSE LET result == JsonLoads(Candidate(response_text)) IN
         IF result.ok
         THEN [type |-> result.type, d |-> result.d]
         ELSE IF result = TooDeep
         THEN SmartFailure(<<"unexpected-error">>)
         ELSE LET cleaned == JsonLoads(Clean(response_text)) IN
              IF cleaned.ok
              THEN [type |-> cleaned.type, d |-> cleaned.d]
              ELSE IF cleaned = TooDeep
              THEN Exception
              ELSE SmartFailure(<<"parse-error">>)

\* The json.loads calls one _extract_json_response call makes
ParseCalls(response_text) ==
    IF response_text = NoneText THEN 0
    ELSE IF JsonLoads(Candidate(response_text)) = Invalid THEN 2
    ELSE 1

\* analysis.get(key, default)
Get(d, key, default) == IF key \in DOMAIN d THEN d[key] ELSE default

\* SmartContextAnalyzer.analyze_with_context from the answer on
analyze_with_context(outcome) ==
    IF \/ outcome.raised
       \/ outcome.text = NoneText
       \/ SmartExtract(outcome.text).type = "exception"
    THEN [type |-> "dict", d |-> [description |-> <<>>, errors |-> NoIssues]]
    ELSE SmartExtract(outcome.text)

\* LLMAnalyzer.analyze_changes of smart_context_analyzer.py, lines 422-429,
\* once context files are there: an analysis that is no dictionary has no
\* get(), and the handler of line 430 goes on to the analysis in batches.
SmartDelivered(outcome) ==
    LET analysis == analyze_with_context(outcome) IN
    IF analysis.type # "dict"
    THEN [path |-> "standard", description |-> <<>>, errors |-> <<>>]
    ELSE [path        |-> "context",
          description |-> Get(analysis.d, "description", <<>>),
          errors      |-> Get(analysis.d, "errors", NoIssues)]

\* The keys each class expects in the answer
ExpectedKeys(op) ==
    CASE op = "CodeAnalyzer" -> <<"issues", "summary">>
      [] op = "ContextDiscovery" -> <<"required_files", "explanation">>
      [] op = "SmartContextAnalyzer" -> <<"description", "errors">>

MemberValue(key) ==
    IF key = "required_files" THEN <<Request("m.py", 1)>> ELSE <<key>>

\* What an answer is made of: each class finds one of its keys among the
\* members.
Alphabet ==
    { Fence, Open, Close, Newline, Prose, Deep, ArrayDoc("sq"),
      Member("summary", "sq", MemberValue("summary")),
      Member("summary", "py", MemberValue("summary")),
      Member("required_files", "dq", MemberValue("required_files")),
      Member("description", "dq", MemberValue("description")) }

ExtractTexts == {<<>>, NoneText} \cup SeqsUpTo(Alphabet, MaxTokens)

ExtractCall(response_text) ==
    [op |-> "_extract_json_response", response_text |-> response_text]

\* What a call returns: the class whose method ran, the result of
\* _extract_json_response, the text the primary parse chose, the number of
\* json.loads calls, and what the function around it hands to its caller.
ExtractReturn(class, result, response_text, caller) ==
    [ran       |-> TRUE,
     class     |-> class,
     result    |-> result,
     candidate |-> IF response_text = NoneText THEN NoneText
                   ELSE Candidate(response_text),
     parses    |-> ParseCalls(response_text),
     caller    |-> caller]

ExtractAnalysis ==
    /\ uCall.op = "_extract_json_response"
    /\ uRet = NotRun
    /\ uRet' = ExtractReturn("CodeAnalyzer",
                             AnalysisExtract(uCall.response_text),
                             uCall.response_text,
                             _analyze_code_changes(Answered(uCall.response_text)))
    /\ UNCHANGED <<uCall, UnitFrame>>

ExtractDiscovery ==
    /\ uCall.op = "_extract_json_response"
    /\ uRet = NotRun
    /\ uRet' = ExtractReturn("ContextDiscovery",
                             DiscoveryExtract(uCall.response_text),
                             uCall.response_text,
                             discover_required_files(Answered(uCall.response_text)))
    /\ UNCHANGED <<uCall, UnitFrame>>

ExtractSmart ==
    /\ uCall.op = "_extract_json_response"
    /\ uRet = NotRun
    /\ uRet' = ExtractReturn("SmartContextAnalyzer",
                             SmartExtract(uCall.response_text),
                             uCall.response_text,
                             SmartDelivered(Answered(uCall.response_text)))
    /\ UNCHANGED <<uCall, UnitFrame>>

InitExtract ==
    /\ UnitIdle
    /\ uCall \in {ExtractCall(t) : t \in ExtractTexts}
    /\ uRet = NotRun

NextExtract ==
    \/ ExtractAnalysis
    \/ ExtractDiscovery
    \/ ExtractSmart

SpecExtract == InitExtract /\ [][NextExtract]_vars

----------------------------------------------------------------------------
(* The size limit on file contents (SpecTruncate)                          *)

\* A content of n characters; a character is the number of its place.
ContentOf(n) == [i \in 1..n |-> i]

\* get_file_content returned None
NoContent == <<0>>

FileContents == {ContentOf(n) : n \in 0..MaxLength} \cup {NoContent}

\* f"\n... [обрезано, полный размер: {n} символов]": the text that states
\* the length n, which is no character of a file
Marker(n) == 0 - n

\* content[:max_file_size] + marker, when the content is longer
Limited(content, max_file_size) ==
    IF content # NoContent /\ Len(content) > max_file_size
    THEN SubSeq(content, 1, max_file_size) \o <<Marker(Len(content))>>
    ELSE content

\* One content on its way into a prompt
Handed(kind, original, content) ==
    [kind |-> kind, original |-> original, content |-> content]

\* "if content:"
HasContent(content) == content # NoContent /\ content # <<>>

\* GitLabClient.get_context_files for one base path
get_context_files(content, max_file_size) ==
    IF HasContent(content)
    THEN <<Handed("context", content, Limited(content, max_file_size))>>
    ELSE <<>>

\* GitLabClient.get_commit_details for one entry of the diff: the modified
\* file, then its context files
get_commit_details(c) ==
    << Handed("diff", c.diff, Limited(c.diff, c.max_file_size)),
       Handed("old_content", c.old_content,
              Limited(c.old_content, c.max_file_size)),
       Handed("new_content", c.new_content,
              Limited(c.new_content, c.max_file_size)) >>
    \o get_context_files(c.context, c.max_file_size)

\* The fetch loop of LLMAnalyzer.analyze_changes of
\* smart_context_analyzer.py for one required file
SmartFetchContext(content) ==
    IF HasContent(content) THEN <<Handed("context", content, content)>> ELSE <<>>

DetailsCall(old_content, new_content, diff, context, max_file_size) ==
    [op            |-> "fetch",
     old_content   |-> old_content,
     new_content   |-> new_content,
     diff          |-> diff,
     context       |-> context,
     max_file_size |-> max_file_size]

\* main.py: CommitMonitor hands what get_commit_details returned to
\* analyze_changes
CommitDetails ==
    /\ uCall.op = "fetch"
    /\ uRet = NotRun
    /\ uRet' = [ran |-> TRUE, by |-> "get_commit_details",
                handed |-> get_commit_details(uCall)]
    /\ UNCHANGED <<uCall, UnitFrame>>

\* smart_context_analyzer.py: analyze_changes fetches the context file
\* itself and hands it to analyze_with_context
SmartFetch ==
    /\ uCall.op = "fetch"
    /\ uRet = NotRun
    /\ uRet' = [ran |-> TRUE, by |-> "analyze_changes",
                handed |-> SmartFetchContext(uCall.context)]
    /\ UNCHANGED <<uCall, UnitFrame>>

InitTruncate ==
    /\ UnitIdle
    /\ uCall \in {DetailsCall(o, n, d, c, m) :
                    o \in FileContents, n \in FileContents,
                    d \in FileContents \ {NoContent}, c \in FileContents,
                    m \in 0..MaxSize}
    /\ uRet = NotRun

NextTruncate ==
    \/ CommitDetails
    \/ SmartFetch

SpecTruncate == InitTruncate /\ [][NextTruncate]_vars

----------------------------------------------------------------------------
(* TelegramNotifier.send_message (SpecNotify)                              *)

\* The texts monitor_project sends
Messages ==
    {ResultMessage(p, k, desc, errors) :
        p \in Projects, k \in CommitNumbers,
        desc \in {<<>>, <<"G">>}, errors \in {NoIssues, <<"E">>}}
    \cup {ErrorMessage(p, k) : p \in Projects, k \in CommitNumbers}

\* One bot.send_message call: parse_mode NoneV when none is passed
BotSend(text, parse_mode, delivered) ==
    [text |-> text, parse_mode |-> parse_mode, delivered |-> delivered]

\* send_message has returned
Returned(sends, value) ==
    [ran |-> TRUE, sends |-> sends, raised |-> FALSE, returned |-> value]

\* send_message is inside its except block, at the second await
Resending(sends) == [ran |-> FALSE, sends |-> sends]

\* A send_message with no second attempt
AfterMarkdownNoResend(message, delivered) ==
    Returned(<<BotSend(message, <<"Markdown">>, delivered)>>, delivered)

\* The first bot.send_message call has answered
AfterMarkdown(message, delivered) ==
    LET sends == <<BotSend(message, <<"Markdown">>, delivered)>>
    IN  IF delivered THEN Returned(sends, TRUE) ELSE Resending(sends)

\* The second bot.send_message call has answered
AfterPlain(sends, message, delivered) ==
    Returned(Append(sends, BotSend(message, NoneV, delivered)), delivered)

SendCall(message) == [op |-> "send_message", message |-> message]

SendMarkdown ==
    /\ uCall.op = "send_message"
    /\ uRet = NotRun
    /\ \E delivered \in BOOLEAN :
        uRet' = AfterMarkdown(uCall.message, delivered)
    /\ UNCHANGED <<uCall, UnitFrame>>

SendPlain ==
    /\ uCall.op = "send_message"
    /\ uRet # NotRun
    /\ ~uRet.ran
    /\ \E delivered \in BOOLEAN :
        uRet' = AfterPlain(uRet.sends, uCall.message, delivered)
    /\ UNCHANGED <<uCall, UnitFrame>>

InitNotify ==
    /\ UnitIdle
    /\ uCall \in {SendCall(m) : m \in Messages}
    /\ uRet = NotRun

NextNotify ==
    \/ SendMarkdown
    \/ SendPlain

SpecNotify == InitNotify /\ [][NextNotify]_vars

----------------------------------------------------------------------------
(* One change through LLMAnalyzer.analyze_changes of                       *)
(* smart_context_analyzer.py and through the end of monitor_project's loop *)
(* body (SpecPipeline). "stages" is the record of what has been done for   *)
(* the change, in order.                                                   *)

\* SmartContextAnalyzer.discover_required_files from the create call on.
\* len(response_text) raises on a null content, and setting a key on a
\* result that is no dictionary raises: both land in "except Exception".
SmartDiscover(outcome) ==
    IF \/ outcome.raised
       \/ outcome.text = NoneText
       \/ SmartExtract(outcome.text).type # "dict"
    THEN DiscoveryFailure(<<"call-error">>)
    ELSE [type |-> "dict",
          d    |-> WithDefault(
                      WithDefault(SmartExtract(outcome.text).d,
                                  "required_files", <<>>),
                      "explanation", <<"not-provided">>)]

\* What the analysis model answers analyze_with_context with
SmartAnalysisTexts ==
    { <<Fence, Open, Member("description", "dq", <<"D">>),
        Member("errors", "dq", <<"E">>), Close, Fence>>,
      <<Open, Member("description", "dq", <<"D">>), Close>>,
      <<Open, Member("errors", "sq", <<"E">>), Close>>,
      <<ArrayDoc("dq")>>,
      <<Prose>>,
      NoneText }

\* The locals of the call, and of monitor_project after it
PipelineFrame(pc, stages, required_files) ==
    [ran              |-> FALSE,
     pc               |-> pc,
     stages           |-> stages,
     required_files   |-> required_files,
     queue            |-> required_files,  \* still to fetch
     context_files    |-> <<>>,
     batched          |-> FALSE,
     requests         |-> <<>>,            \* batches still to send
     all_descriptions |-> <<>>,
     all_errors       |-> <<>>,
     desc             |-> NoneV,
     errors           |-> NoneV,
     notified         |-> FALSE,           \* send_message was called
     send_returned    |-> "pending"]       \* "True" or "False" once it has

\* "if len(modified_files) > 3" and the batching loop, up to the first
\* _analyze_batch call
Standard(f, modified_files) ==
    [f EXCEPT !.pc = "call",
              !.stages = Append(@, "batching"),
              !.batched = Len(modified_files) > UnbatchedMax,
              !.requests = SmartRequests(modified_files, 30000, FALSE)]

\* analyze_changes has returned (desc, errors): lines 534-548 of
\* monitor_project, up to the send_message call or to the mark_processed
\* call of the branch "if desc is None"
Delivered(f, desc, errors) ==
    IF desc = NoneV
    THEN [f EXCEPT !.ran = TRUE, !.pc = "done",
                   !.desc = desc, !.errors = errors,
                   !.stages = Append(@, "marking")]
    ELSE [f EXCEPT !.pc = "send",
                   !.desc = desc, !.errors = errors,
                   !.notified = TRUE,
                   !.stages = Append(@, "notification")]

\* A loop body that marks the commit only when the notification went out.
AfterSendIfDelivered(f, returned) ==
    IF returned
    THEN [f EXCEPT !.ran = TRUE, !.pc = "done", !.send_returned = "True",
                   !.stages = Append(@, "marking")]
    ELSE [f EXCEPT !.ran = TRUE, !.pc = "skipped", !.send_returned = "False"]

\* "await self.notifier.send_message(msg)" has returned; its value is not
\* looked at
AfterSend(f, returned) ==
    [f EXCEPT !.ran = TRUE, !.pc = "done",
              !.send_returned = IF returned THEN "True" ELSE "False",
              !.stages = Append(@, "marking")]

\* The change is commit 2 of "g/a", which the monitor has listed as new.
PipelineCall(modified_files, client) ==
    [op |-> "analyze_changes", modified_files |-> modified_files,
     client |-> client, project_path |-> "g/a", commit |-> 2]

\* The ledger once the frame has got to f: mark_processed has been called
\* when the loop body is over
PipelineLedger(f) ==
    IF f.pc # "done" THEN ledger
    ELSE IF f.notified
    THEN MarkNotified(ledger, uCall.project_path, uCall.commit)
    ELSE MarkNoAnalysis(ledger, uCall.project_path, uCall.commit)

PipelineFrameRest == <<monVars, dbLast, batchVars, analyzeVars, commitVars>>

\* Lines 376-401: without a client, a project path and a commit id, or
\* without the project, the standard analysis; else the discovery call.
DiscoverContext ==
    /\ uCall.op = "analyze_changes"
    /\ uRet = NotRun
    /\ \E project \in BOOLEAN, outcome \in DiscoveryOutcomes :
        IF uCall.client /\ project
        THEN LET context_result == SmartDiscover(outcome)
                 required_files == context_result.d["required_files"]
                 f == PipelineFrame("fetch", <<"discovery">>, required_files)
             IN  uRet' = IF required_files # <<>> THEN f
                         ELSE Standard(f, uCall.modified_files)
        ELSE uRet' = Standard(PipelineFrame("call", <<>>, <<>>),
                              uCall.modified_files)
    /\ UNCHANGED <<uCall, UnitFrame>>

\* One turn of the loop of lines 403-418; after the last one, "if
\* context_files" chooses between analyze_with_context and the standard
\* analysis.
FetchRequired ==
    /\ uCall.op = "analyze_changes"
    /\ uRet # NotRun
    /\ uRet.pc = "fetch"
    /\ \E state \in FileStates :
        LET file_info == Head(uRet.queue)
            context_files == FetchContext(uRet.context_files, file_info, state)
            f == [uRet EXCEPT
                    !.queue = Tail(@),
                    !.context_files = context_files,
                    !.stages = IF uRet.queue = uRet.required_files
                               THEN Append(@, "fetch") ELSE @]
        IN  uRet' = IF f.queue # <<>> THEN f
                    ELSE IF context_files # <<>>
                    THEN [f EXCEPT !.pc = "context"]
                    ELSE Standard(f, uCall.modified_files)
    /\ UNCHANGED <<uCall, UnitFrame>>

\* Lines 421-432: analyze_with_context gets modified_files whole, and what
\* it returns is returned; an exception leads to the standard analysis.
AnalyzeWithContext ==
    /\ uCall.op = "analyze_changes"
    /\ uRet # NotRun
    /\ uRet.pc = "context"
    /\ \E outcome \in {Raised} \cup {Answered(t) : t \in SmartAnalysisTexts} :
        LET got == SmartDelivered(outcome)
            f == [uRet EXCEPT !.stages = Append(@, "analysis")]
        IN  uRet' = IF got.path = "context"
                    THEN Delivered(f, got.description, got.errors)
                    ELSE Standard(f, uCall.modified_files)
    /\ ledger' = PipelineLedger(uRet')
    /\ UNCHANGED <<uCall, PipelineFrameRest>>

\* Lines 437-481: one _analyze_batch call answers
StandardCall ==
    /\ uCall.op = "analyze_changes"
    /\ uRet # NotRun
    /\ uRet.pc = "call"
    /\ \E o \in CallOutcomes :
        LET acc == SmartCollect(uRet, o)
            rest == Tail(uRet.requests)
            f == [uRet EXCEPT
                    !.requests = rest,
                    !.all_descriptions = acc.all_descriptions,
                    !.all_errors = acc.all_errors,
                    !.stages = IF uRet.stages[Len(uRet.stages)] = "analysis"
                               THEN @ ELSE Append(@, "analysis")]
            result == IF uRet.batched
                      THEN SmartMerge(acc.all_descriptions, acc.all_errors)
                      ELSE o
        IN  uRet' = IF uRet.batched /\ rest # <<>> THEN f
                    ELSE Delivered(f, result.desc, result.errors)
    /\ ledger' = PipelineLedger(uRet')
    /\ UNCHANGED <<uCall, PipelineFrameRest>>

\* send_message has returned True or False: mark_processed of line 560
MarkAfterSend ==
    /\ uCall.op = "analyze_changes"
    /\ uRet # NotRun
    /\ uRet.pc = "send"
    /\ \E returned \in BOOLEAN : uRet' = AfterSend(uRet, returned)
    /\ ledger' = PipelineLedger(uRet')
    /\ UNCHANGED <<uCall, PipelineFrameRest>>

InitPipeline ==
    /\ UnitIdle
    /\ uCall \in {PipelineCall(m, client) :
                    m \in AnalyzeInputs, client \in BOOLEAN}
    /\ uRet = NotRun

NextPipeline ==
    \/ DiscoverContext
    \/ FetchRequired
    \/ AnalyzeWithContext
    \/ StandardCall
    \/ MarkAfterSend

SpecPipeline == InitPipeline /\ [][NextPipeline]_vars

----------------------------------------------------------------------------
(* GitLabClient.get_commit_details: which entries of the commit's diff     *)
(* become modified files, and monitor_project when there are none          *)
(* (SpecDetails)                                                           *)

\* One entry of commit.diff(): its paths, "" when the entry has none, and
\* the length of its diff text.
DiffEntry(new_path, old_path, diff) ==
    [new_path |-> new_path, old_path |-> old_path, diff |-> diff]

DiffUniverse ==
    { DiffEntry("a.py", "a.py", 0),
      DiffEntry("b.py", "b.py", 2),
      DiffEntry("c.py", "c0.py", 2),
      DiffEntry("", "d.py", 3),
      DiffEntry("e.py", "", 1) }

DiffLists == {<<>>} \cup SeqsUpTo(DiffUniverse, MaxDiff)

\* A sort that leaves the entries as the host listed them.
InsertAtEnd(sorted, x) == Append(sorted, x)

\* diff.sort(key=lambda x: len(x.get('diff', '')), reverse=True), one
\* entry at a time: the longer diffs first, entries of one length in the
\* order the host listed them.
InsertByDiff(sorted, x) ==
    LET ahead == {i \in 1..Len(sorted) : sorted[i].diff >= x.diff}
        n == Cardinality(ahead)
    IN  SubSeq(sorted, 1, n) \o <<x>> \o SubSeq(sorted, n + 1, Len(sorted))

RECURSIVE SortDiff(_, _, _)
SortDiff(sorted, diff, i) ==
    IF i > Len(diff) THEN sorted
    ELSE SortDiff(InsertByDiff(sorted, diff[i]), diff, i + 1)

\* diff[:max_files]
FirstFiles(diff, max_files) == SubSeq(diff, 1, Min(max_files, Len(diff)))

\* "if d.get('new_path') and d.get('old_path')"
HasPaths(d) == d.new_path # "" /\ d.old_path # ""

\* The record appended for an entry: the path is the new path
ModifiedFile(d) == [path |-> d.new_path, diff |-> d.diff]

\* modified_files of a get_commit_details call that got the diff
ModifiedFiles(diff, max_files) ==
    LET kept == SelectSeq(FirstFiles(SortDiff(<<>>, diff, 1), max_files),
                          HasPaths)
    IN  [i \in 1..Len(kept) |-> ModifiedFile(kept[i])]

\* What the calls to the host do in get_commit_details:
\*   "ok"         the project, the commit and its diff are there
\*   "not_found"  get_project returns None: (None, [], [])
\*   "error"      a call inside the try block raises: (None, [], [])
\*   "raise"      get_project raises anything but GitlabGetError, outside
\*                the try block
DetailsFetches == {"ok", "not_found", "error", "raise"}

GetDetailsCall(diff, max_files, fetch) ==
    [op |-> "get_commit_details", diff |-> diff, max_files |-> max_files,
     fetch |-> fetch, project_path |-> "g/a", commit |-> 2]

\* monitor_project from get_commit_details to the next thing it waits for
DetailsFrame(raised, sorted, modified_files, next) ==
    [ran            |-> next # "handler",
     raised         |-> raised,
     sorted         |-> sorted,      \* the diff after the sort
     modified_files |-> modified_files,
     next           |-> next,        \* "continue", "analyze", "handler"
     analysed       |-> next = "analyze",  \* analyze_changes was called
     notified       |-> next = "handler"]  \* send_message was called

\* Lines 522-534: get_commit_details, then "if not modified_files"
FetchDetails ==
    /\ uCall.op = "get_commit_details"
    /\ uRet = NotRun
    /\ LET modified_files ==
               IF uCall.fetch = "ok"
               THEN ModifiedFiles(uCall.diff, uCall.max_files)
               ELSE <<>>
           sorted == IF uCall.fetch = "ok"
                     THEN SortDiff(<<>>, uCall.diff, 1) ELSE <<>>
           next == IF uCall.fetch = "raise" THEN "handler"
                   ELSE IF modified_files = <<>> THEN "continue"
                   ELSE "analyze"
       IN  /\ uRet' = DetailsFrame(uCall.fetch = "raise", sorted,
                                   modified_files, next)
           /\ ledger' = IF next = "continue"
                        THEN MarkNoFiles(ledger, uCall.project_path,
                                         uCall.commit)
                        ELSE ledger
    /\ UNCHANGED <<uCall, PipelineFrameRest>>

\* Lines 562-568: the error text has been sent, and the handler marks the
\* commit
ErrorSent ==
    /\ uCall.op = "get_commit_details"
    /\ uRet # NotRun
    /\ uRet.next = "handler"
    /\ ~uRet.ran
    /\ uRet' = [uRet EXCEPT !.ran = TRUE]
    /\ ledger' = MarkFailed(ledger, uCall.project_path, uCall.commit)
    /\ UNCHANGED <<uCall, PipelineFrameRest>>

InitDetails ==
    /\ UnitIdle
    /\ uCall \in {GetDetailsCall(diff, max_files, fetch) :
                    diff \in DiffLists, max_files \in 0..MaxDiff,
                    fetch \in DetailsFetches}
    /\ uRet = NotRun

NextDetails ==
    \/ FetchDetails
    \/ ErrorSent

SpecDetails == InitDetails /\ [][NextDetails]_vars

----------------------------------------------------------------------------
(* CommitMonitor.run over one repository while commits keep arriving       *)
(* (SpecPolling). A cycle is taken whole: every call to the host, to the   *)
(* completion API and to the bot comes back, so that monitor_project marks *)
(* every commit fetch_recent_commits returned.                             *)

\* The loop of monitor_project over reversed(commits), for what it writes
\* to the ledger. (CHOOSE from a one-element set: the ledger after a mark,
\* and the listing below, are worked out once.)
RECURSIVE MarkAll(_, _, _)
MarkAll(db, project_path, queue) ==
    IF queue = <<>> THEN db
    ELSE CHOOSE out \in
            {MarkAll(marked, project_path, Tail(queue)) :
                marked \in {MarkNotified(db, project_path, Head(queue))}} :
            TRUE

\* One monitor_project call, from the listing to its return
monitor_project(db, project_path, n) ==
    CHOOSE out \in
        {MarkAll(db, project_path, Reverse(commits)) :
            commits \in {NewCommits(db, project_path, n)}} :
        TRUE

\* n commits are pushed to the repository while run() sleeps
PushMany(p, n) ==
    /\ remote[p] + n <= MaxCommits
    /\ remote' = [remote EXCEPT ![p] = @ + n]
    /\ UNCHANGED <<repositories, pushes, phase, cycle, running, task, sent,
                   ledgerVars, pureVars>>

\* One turn of "while True" in run(): the tasks of the cycle, gathered
PollCycle ==
    /\ ledger' = monitor_project(ledger, repositories[1],
                                 remote[repositories[1]])
    /\ UNCHANGED <<monVars, dbLast, pureVars>>

InitPolling ==
    /\ repositories = <<"g/a">>
    /\ remote = [p \in Projects |-> 1]
    /\ pushes = 0
    /\ phase = "sleep"
    /\ cycle = 0
    /\ running = 0
    /\ task = [i \in Tasks |-> InitFrame]
    /\ sent = [key \in Keys |-> [result |-> 0, error |-> 0]]
    /\ ledger = {}
    /\ dbLast = NoCall
    /\ bFiles = <<>>
    /\ bBudget = 0
    /\ bOut = NotRun
    /\ aFiles = <<>>
    /\ aFrame = IdleAnalysis
    /\ aPosts = <<>>
    /\ aOut = NotRun
    /\ cClient = FALSE
    /\ cFiles = [p \in ContextPaths |-> "none"]
    /\ cFrame = IdleCommit
    /\ cLog = <<>>
    /\ cOut = NotRun
    /\ uCall = NoCall
    /\ uRet = NotRun

NextPolling ==
    \/ \E n \in 1..MaxCommits : PushMany(repositories[1], n)
    \/ PollCycle

\* run() never stops polling: a cycle that has something to mark is taken.
SpecPolling == InitPolling /\ [][NextPolling]_vars /\ WF_vars(PollCycle)

----------------------------------------------------------------------------
(* Properties                                                              *)

\* The commit task i is making calls for: the head of its queue, from
\* get_commit_details to the mark_processed that ends the loop body.
Called(i) ==
    IF task[i].pc \in {"details", "analyze", "send_md", "send_plain"}
    THEN {Head(task[i].queue)}
    ELSE {}

HasRow(db, key) == is_processed(db, key[1], key[2]) # NoneInt

\* C1: send_message is invoked at most once for each (repository, commit
\* id), result and error messages counted together, over all cycles and
\* all interleavings of the repository tasks.
C1_AtMostOneNotification ==
    \A key \in Keys : sent[key].result + sent[key].error <= 1

\* C2: a monitor_project run that finds a row for (project, commit) in the
\* ledger makes no get_commit_details, analyze_changes or send_message call
\* for that commit: the commit is not among the run's new commits, the run
\* works on its new commits only, and a send_message call is always for
\* the commit some task is working on.
C2_NoReprocessing ==
    /\ [](\A i \in Tasks :
            /\ Called(i) \subseteq task[i].new
            /\ Range(task[i].queue) \subseteq task[i].new
            /\ task[i].known \cap task[i].new = {})
    /\ [][\A key \in Keys :
            sent'[key] # sent[key] =>
                \E i \in Tasks :
                    /\ key[1] = repositories[i]
                    /\ \E k \in Called(i) : key[2] = CommitId(k)
                    /\ \A k \in task[i].known : key[2] # CommitId(k)]_vars

\* C2 witness: a run that found a processed commit in its window and is
\* notifying about another one.
C2_Witness ==
    \E i \in Tasks :
        /\ task[i].known # {}
        /\ task[i].pc = "send_md"

InHandler(f) == f.msg.kind = "error"

\* C4: an exception raised while a commit is processed does not leave
\* monitor_project; send_message is called with an error text that holds
\* the commit's short id, and when the handler is through the loop goes on
\* with the next commit of the queue.
C4_ExceptionHandled ==
    /\ [](\A i \in Tasks :
            /\ task[i].pc = "raised" => task[i].new = {}
            /\ InHandler(task[i]) /\ task[i].pc # "cancelled" =>
                /\ task[i].pc \in {"send_md", "send_plain"}
                /\ task[i].msg.short_id = ShortId(CommitId(Head(task[i].queue)))
                /\ task[i].msg.project = repositories[i]
                /\ sent[<<repositories[i],
                          CommitId(Head(task[i].queue))>>].error > 0)
    /\ [][\A i \in Tasks :
            /\ (task[i].pc = "details" /\ task'[i].pc \in {"send_md", "raised"})
                    => InHandler(task'[i])
            /\ (InHandler(task[i]) /\ ~InHandler(task'[i])) =>
                /\ task'[i].queue = Tail(task[i].queue)
                /\ task'[i].pc = IF task'[i].queue = <<>> THEN "done"
                                 ELSE "details"]_vars

\* C4 witness: after the error text for one commit, the task is at the
\* next commit of the same repository.
C4_Witness ==
    \E i \in Tasks :
        /\ task[i].pc = "details"
        /\ \E k \in task[i].new \ Range(task[i].queue) :
            sent[<<repositories[i], CommitId(k)>>].error > 0

\* The commits of task i that passed the is_processed check of its fetch
\* and that it has not marked yet.
Unmarked(i) ==
    IF task[i].pc \in {"details", "analyze", "send_md", "send_plain"}
    THEN Range(task[i].queue)
    ELSE {}

\* C5: between a task's is_processed check of a key and its mark_processed
\* of that key, no other task passes the check for the same key.
C5_CheckThenWriteAtomic ==
    \A i, j \in Tasks :
        (i # j /\ repositories[i] = repositories[j]) =>
            Unmarked(i) \cap Unmarked(j) = {}

\* C6: no exception leaves a monitor_project task; gather returns and the
\* run loop goes on.
C6_FailureContained ==
    /\ phase # "crashed"
    /\ \A i \in Tasks : task[i].pc \notin {"raised", "cancelled"}

\* C7: mark_processed does not raise, also for a key that has a row, and
\* once is_processed is true of a key it is true of it in every later
\* state.
C7_MarkedStaysProcessed ==
    /\ [](dbLast.op = "mark_processed" =>
            /\ ~dbLast.raised
            /\ Truthy(is_processed(ledger, dbLast.project, dbLast.commit_id)))
    /\ [][\A key \in LedgerKeys :
            Truthy(is_processed(ledger, key[1], key[2])) =>
                Truthy(is_processed(ledger', key[1], key[2]))]_vars

\* C7 witness: mark_processed has returned for a key that had a row.
C7_Witness ==
    /\ dbLast.op = "mark_processed"
    /\ dbLast.before # NoneInt
    /\ Cardinality(ledger) > 1

\* C8: at most one row per (project, commit_id), and after mark_processed
\* the row of the key carries the timestamp of that call.
C8_OneRowLatestWins ==
    /\ \A key \in LedgerKeys : Cardinality(RowsOf(ledger, key[1], key[2])) <= 1
    /\ dbLast.op = "mark_processed" =>
        \A r \in RowsOf(ledger, dbLast.project, dbLast.commit_id) :
            r.timestamp = dbLast.timestamp

\* C8 witness: the second mark_processed of a key, with another timestamp.
C8_Witness ==
    /\ dbLast.op = "mark_processed"
    /\ dbLast.before # NoneInt
    /\ dbLast.before # dbLast.timestamp

KeyOf(r) == <<r.project, r.commit_id>>

\* C9: no DBManager call removes a key from the ledger; is_processed and
\* _init_db change nothing, and mark_processed of one key leaves the rows
\* of all other keys as they are and adds no row for another key.
C9_RowsNeverRemoved ==
    [][/\ \A r \in ledger : \E r2 \in ledger' : KeyOf(r2) = KeyOf(r)
       /\ dbLast'.op # "mark_processed" => ledger' = ledger
       /\ dbLast'.op = "mark_processed" =>
            LET key == <<dbLast'.project, dbLast'.commit_id>> IN
            /\ \A r \in ledger : KeyOf(r) # key => r \in ledger'
            /\ \A r \in ledger' : KeyOf(r) # key => r \in ledger]_vars

\* C9 witness: a key was marked again, with another timestamp, while the
\* ledger held the rows of two other keys.
C9_Witness ==
    /\ dbLast.op = "mark_processed"
    /\ dbLast.before # NoneInt
    /\ dbLast.before # dbLast.timestamp
    /\ Cardinality({KeyOf(r) : r \in ledger}) >= 3

\* C10: the batches of the loop, concatenated, are the input list: the
\* same files in the same order, in main.py and in
\* smart_context_analyzer.py.
C10_BatchesPartitionInput ==
    (bOut.ran /\ bOut.batched) =>
        /\ Concat(bOut.batches) = bFiles
        /\ Concat(bOut.smart_batches) = bFiles

\* C10 witness: the loop closed a batch and went on.
C10_Witness ==
    /\ bOut.ran
    /\ bOut.batched
    /\ Len(bOut.batches) >= 3

\* The summed size of the files of one request
RECURSIVE TotalSize(_)
TotalSize(batch) ==
    IF batch = <<>> THEN 0 ELSE FileSize(Head(batch)) + TotalSize(Tail(batch))

BatchesOf(bs) == {bs[i] : i \in 1..Len(bs)}

\* C11: a batch of the loop whose summed size is over the budget holds one
\* file; a file that is over the budget on its own is the only file of its
\* batch, and it is in a batch (the batches together are the input). In
\* main.py and in smart_context_analyzer.py.
C11_OversizeFileAlone ==
    (bOut.ran /\ bOut.batched) =>
        /\ \A bs \in {bOut.batches, bOut.smart_batches} :
            /\ \A b \in BatchesOf(bs) :
                /\ TotalSize(b) > bBudget => Len(b) = 1
                /\ \A j \in 1..Len(b) :
                        FileSize(b[j]) > bBudget => b = <<b[j]>>
            /\ Concat(bs) = bFiles

\* C11 witness: a file over the budget between files that fit.
C11_Witness ==
    /\ bOut.ran
    /\ bOut.batched
    /\ \E i \in 2..(Len(bOut.batches) - 1) :
        /\ TotalSize(bOut.batches[i]) > bBudget
        /\ Len(bOut.batches[i - 1]) >= 2

\* C12: no batch of the loop is empty, and a batch is closed only when the
\* next file does not fit: the size of a batch plus the size of the first
\* file of the batch after it is over the budget.
C12_GreedyInOrder ==
    (bOut.ran /\ bOut.batched) =>
        /\ \A b \in BatchesOf(bOut.batches) : b # <<>>
        /\ \A i \in 1..(Len(bOut.batches) - 1) :
            TotalSize(bOut.batches[i]) + FileSize(bOut.batches[i + 1][1])
                > bBudget

\* C12 witness: a batch of several files was closed and a batch of several
\* files came after it.
C12_Witness ==
    /\ bOut.ran
    /\ bOut.batched
    /\ \E i \in 1..(Len(bOut.batches) - 1) :
        /\ Len(bOut.batches[i]) >= 2
        /\ Len(bOut.batches[i + 1]) >= 2

\* C13: every request analyze_changes sends carries one changed file, or
\* changed files whose summed size is within the budget: for any number of
\* files, with context files attached or not.
C13_RequestsWithinBudget ==
    bOut.ran =>
        \A bs \in {bOut.batches, bOut.smart_batches, bOut.smart_context} :
            \A b \in BatchesOf(bs) :
                Len(b) = 1 \/ TotalSize(b) <= bBudget

\* What the completion calls of the analyze_changes call returned, in order
PostResults == [i \in 1..Len(aPosts) |-> aPosts[i].result]

\* A batch reported errors: not empty, not None, not the sentinel.
ReportsIssue(o) == o.errors \notin {<<>>, NoneV, NoIssues}

HasDescription(o) == o.desc \notin {<<>>, NoneV}

MergedAsClaimed(out) ==
    LET issues == SelectSeq(PostResults, ReportsIssue)
        descs  == SelectSeq(PostResults, HasDescription)
    IN  /\ (out.errors = NoIssues) <=> (issues = <<>>)
        /\ issues # <<>> =>
              out.errors = Join("\n", [i \in 1..Len(issues) |-> issues[i].errors])
        /\ out.desc = Join(" ", [i \in 1..Len(descs) |-> descs[i].desc])

\* C14: when the change is analysed in batches, the merged errors are the
\* sentinel exactly when every batch reported no issues (empty, None or
\* the sentinel); otherwise they are the reported errors joined in batch
\* order; the merged description is the non-empty descriptions joined in
\* batch order. In main.py and in smart_context_analyzer.py.
C14_MergeOfBatches ==
    (aOut.ran /\ aFrame.batched) =>
        /\ MergedAsClaimed(aOut)
        /\ MergedAsClaimed(aOut.smart)

\* C14 witness: three batches, the second failed, the others reported
\* different errors.
C14_Witness ==
    /\ aOut.ran
    /\ aFrame.batched
    /\ Len(aPosts) = 3
    /\ ReportsIssue(aPosts[1].result)
    /\ aPosts[2].result = NonePair
    /\ ReportsIssue(aPosts[3].result)
    /\ aPosts[1].result.errors # aPosts[3].result.errors

\* A rate-limit or 5xx-class response, or no response at all
Retryable(resp) == resp.status = 0 \/ resp.status = 429 \/ resp.status >= 500

Failed(resp) == _analyze_batch(resp) = NonePair

\* C18: a completion call that fails with a rate-limit or 5xx-class
\* response or a network failure is followed by another attempt for the
\* same batch; a call that fails in any other way is not.
C18_RetryTransient ==
    aOut.ran =>
        \A n \in 1..Len(aPosts) :
            LET later == {m \in (n + 1)..Len(aPosts) :
                            aPosts[m].batch = aPosts[n].batch}
                first == \A m \in 1..(n - 1) :
                            aPosts[m].batch # aPosts[n].batch
            IN  /\ (first /\ Retryable(aPosts[n].response)) => later # {}
                /\ (Failed(aPosts[n].response)
                        /\ ~Retryable(aPosts[n].response)) => later = {}

\* The place of commit k in the host's listing of n commits
PlaceIn(listing, k) == CHOOSE j \in 1..Len(listing) : listing[j] = k

\* The new commits of task i whose loop body is over
Processed(i) == task[i].new \ Range(task[i].queue)

C16_CyclesDoNotOverlap ==
    /\ [](DOMAIN task = 1..Len(repositories))
    /\ [][/\ cycle' # cycle =>
                /\ cycle' = cycle + 1
                /\ \A i \in Tasks :
                        task[i].pc = IF cycle = 0 THEN "init" ELSE "done"
                /\ task' = [i \in 1..Len(repositories) |-> InitFrame]
          /\ \A i \in Tasks :
                /\ (task[i].pc = "init" /\ task'[i].pc # "init") =>
                        cycle' = cycle /\ phase = "gather"
                /\ (task[i].pc # "init" /\ task'[i].pc = "init") =>
                        cycle' = cycle + 1
          /\ (phase = "gather" /\ phase' = "sleep") =>
                \A i \in Tasks : task[i].pc = "done"]_vars

\* C16 witness: the second cycle is under way, after a first cycle in
\* which a notification went out.
C16_Witness ==
    /\ cycle = 2
    /\ phase = "gather"
    /\ \E i \in Tasks : task[i].pc = "analyze"
    /\ \E key \in Keys : sent[key].result > 0 /\ HasRow(ledger, key)

\* C17: when analyze_changes yields no description for a commit, a message
\* is sent for that commit: the loop body does not end on the failed
\* analysis without a send_message call.
C17_AnalysisFailureNotified ==
    [][\A i \in Tasks :
        (/\ task[i].pc = "analyze"
         /\ task'[i].pc \in {"details", "done"}) =>
            LET key == <<repositories[i], CommitId(Head(task[i].queue))>>
            IN  sent'[key] # sent[key]]_vars

\* Neither the primary parse nor the repair parse gets a JSON document out
\* of the text.
Unparsable(text) ==
    \/ text = NoneText
    \/ /\ ~JsonLoads(Candidate(text)).ok
       /\ ~JsonLoads(Clean(text)).ok

DiscoveryFailed(o) == o.raised \/ Unparsable(o.text)

\* C19: when the discovery call raises or its response cannot be parsed,
\* discover_required_files returns a dictionary whose required_files is
\* empty; analyze_commit then fetches nothing, analyses the modified files
\* with no context files and returns status "completed".
C19_DiscoveryFailsOpen ==
    (cFrame.pc # "start" /\ DiscoveryFailed(cFrame.discovery)) =>
        /\ cFrame.context_result.type = "dict"
        /\ cFrame.context_result.d["required_files"] = <<>>
        /\ cFrame.pc \in {"analyze", "returned"}
        /\ cLog = <<>>
        /\ cFrame.pc = "returned" =>
            /\ cOut.ran
            /\ cOut.status = "completed"
            /\ cOut.analysed
            /\ cOut.analysis_context = <<>>

\* C19 witness: the answer named context files inside a fenced block in
\* single quotes, which neither parse reads; a client was there to fetch
\* them; the analysis call failed too, and the result is "completed".
C19_Witness ==
    /\ cOut.ran
    /\ cClient
    /\ ~cFrame.discovery.raised
    /\ Unparsable(cFrame.discovery.text)
    /\ \E i \in 1..Len(cFrame.discovery.text) :
        /\ cFrame.discovery.text[i].key = "required_files"
        /\ cFrame.discovery.text[i].value # <<>>
    /\ cOut.status = "completed"
    /\ "summary" \in DOMAIN cOut.analysis.d
    /\ cOut.analysis.d["summary"] = <<"call-error">>

\* The request's content resolved to a non-empty value.
Resolved(file_info) == cClient /\ cFiles[file_info.path] = "text"

\* C20: when the discovery asks for context files, the analysis runs
\* whatever the fetches do, and the context files it gets, and the paths
\* the result reports, are those of the requests whose content came back
\* non-empty, in request order.
C20_ContextFilesResolved ==
    (cFrame.context_result.type = "dict" /\ cFrame.required_files # <<>>) =>
        /\ cFrame.pc = "fetch" => cFrame.queue # <<>>
        /\ cFrame.pc = "returned" =>
            LET want == SelectSeq(cFrame.required_files, Resolved) IN
            /\ cOut.ran
            /\ cOut.status = "completed"
            /\ cOut.analysed
            /\ cOut.has_context_files
            /\ cOut.context_files = [i \in 1..Len(want) |-> want[i].path]
            /\ Len(cOut.analysis_context) = Len(want)
            /\ \A i \in 1..Len(want) :
                /\ cOut.analysis_context[i].path = want[i].path
                /\ cOut.analysis_context[i].content = "text"

\* C20 witness: two requests, the fetch of the first raised, the second
\* came back with content.
C20_Witness ==
    /\ cOut.ran
    /\ Len(cFrame.required_files) = 2
    /\ cClient
    /\ cFiles[cFrame.required_files[1].path] = "raise"
    /\ cFiles[cFrame.required_files[2].path] = "text"
    /\ cOut.context_files = <<cFrame.required_files[2].path>>

\* The request could not be resolved: a client was there and the file is
\* missing (None), its content is empty, or the fetch raised.
Unresolved(file_info) == cClient /\ cFiles[file_info.path] # "text"

Logged(op, path) == \E i \in 1..Len(cLog) : cLog[i] = LogEntry(op, path)

\* C21: once the fetch loop is over, every request of priority 1 or 2 that
\* could not be resolved has its high-priority warning in the log, next to
\* the ordinary log line of the failure, and the analysis is still to run
\* or has run.
C21_HighPriorityWarned ==
    (cFrame.pc \in {"analyze", "returned"}
        /\ cFrame.context_result.type = "dict") =>
        \A i \in 1..Len(cFrame.required_files) :
            LET file_info == cFrame.required_files[i] IN
            (Unresolved(file_info) /\ PriorityOf(file_info) <= HighPriority)
                => Logged("warning_high_priority", file_info.path)

\* The lowest priority number among the requests that name the path
BestPriority(required_files, path) ==
    LET ps == {PriorityOf(required_files[i]) :
                 i \in {j \in 1..Len(required_files) :
                           required_files[j].path = path}}
    IN  CHOOSE p \in ps : \A q \in ps : p <= q

\* C22: the context files handed to _analyze_code_changes hold each path
\* once, with the lowest priority number the requests gave that path.
C22_ContextFilesUnique ==
    (cOut.ran /\ cOut.analysed) =>
        LET context == cOut.analysis_context IN
        /\ \A i, j \in 1..Len(context) :
                context[i].path = context[j].path => i = j
        /\ \A i \in 1..Len(context) :
                context[i].priority =
                    BestPriority(cFrame.required_files, context[i].path)

\* C23: the context files of the prompt come in non-decreasing priority
\* number, a file without a priority counting as 5, and they are the
\* context files handed in, those of equal priority in their input order.
C23_PromptByPriority ==
    uRet.ran =>
        LET in == uCall.context_files
            out == uRet.prompt
            n == Len(in)
        IN  /\ Len(out) = n
            /\ \A i \in 1..n : out[i].index = i
            /\ \A i, j \in 1..n :
                    i < j => PriorityOf(uRet.sorted_context[i])
                                <= PriorityOf(uRet.sorted_context[j])
            /\ \E f \in [1..n -> 1..n] :
                    /\ \A i, j \in 1..n : f[i] = f[j] => i = j
                    /\ \A i \in 1..n :
                            /\ uRet.sorted_context[i] = in[f[i]]
                            /\ out[i].path = in[f[i]].path
                    /\ \A i, j \in 1..n :
                            (i < j /\ PriorityOf(in[f[i]]) = PriorityOf(in[f[j]]))
                                => f[i] < f[j]

\* C23 witness: a file without priority, then one of priority 5 with
\* another path, then one of priority 1; the prompt has the last first and
\* the other two in their input order.
C23_Witness ==
    /\ uRet.ran
    /\ Len(uCall.context_files) = 3
    /\ uCall.context_files[1] = ContextFile("s.py", NoneInt)
    /\ uCall.context_files[2] = ContextFile("m.py", 5)
    /\ uCall.context_files[3] = ContextFile("s.py", 1)
    /\ uRet.sorted_context = <<uCall.context_files[3], uCall.context_files[1],
                               uCall.context_files[2]>>

\* Neither parse of the call read a JSON document, and none of them ended
\* in anything but a parse error.
TerminalFailure ==
    /\ uCall.response_text # NoneText
    /\ JsonLoads(Candidate(uCall.response_text)) = Invalid
    /\ JsonLoads(Clean(uCall.response_text)) = Invalid

\* C24: _extract_json_response returns for every response text, and when
\* both parses fail what it returns is a dictionary with nothing in it but
\* expected keys holding an empty list and one diagnostic text.
C24_ExtractNeverRaises ==
    uRet.ran =>
        /\ uRet.result.type # "exception"
        /\ TerminalFailure =>
                /\ uRet.result.type = "dict"
                /\ \E k \in DOMAIN uRet.result.d :
                        /\ uRet.result.d[k] # <<>>
                        /\ \A x \in DOMAIN uRet.result.d \ {k} :
                                /\ x \in Range(ExpectedKeys(uRet.class))
                                /\ uRet.result.d[x] = <<>>

\* C25: what _extract_json_response of CodeAnalyzer and of ContextDiscovery
\* returns is a dictionary that has both expected keys, whichever path
\* produced it.
C25_ExpectedKeysPresent ==
    (uRet.ran /\ uRet.class \in {"CodeAnalyzer", "ContextDiscovery"}
        /\ uRet.result.type # "exception") =>
        /\ uRet.result.type = "dict"
        /\ Range(ExpectedKeys(uRet.class)) \subseteq DOMAIN uRet.result.d

\* The closing brace that balances the opening brace at i - 1, looking from
\* i on with depth braces open; 0 when there is none
RECURSIVE MatchingClose(_, _, _)
MatchingClose(text, i, depth) ==
    IF i > Len(text) THEN 0
    ELSE IF text[i] = Close
         THEN IF depth = 1 THEN i ELSE MatchingClose(text, i + 1, depth - 1)
         ELSE IF text[i] = Open THEN MatchingClose(text, i + 1, depth + 1)
         ELSE MatchingClose(text, i + 1, depth)

\* The opening braces that have a closing brace balancing them
BalancedStarts(text) ==
    {a \in 1..Len(text) : text[a] = Open /\ MatchingClose(text, a + 1, 1) # 0}

Least(S) == CHOOSE a \in S : \A b \in S : a <= b

\* The first balanced {...} span of the text
FirstBalanced(text) ==
    LET a == Least(BalancedStarts(text))
    IN  SubSeq(text, a, MatchingClose(text, a + 1, 1))

\* C26: the text the primary parse works on is the content of the fenced
\* block when there is one, else the first balanced {...} span when there
\* is one, else the whole text.
C26_CandidateOrder ==
    (uRet.ran /\ uCall.response_text # NoneText) =>
        LET text == uCall.response_text IN
        uRet.candidate =
            IF FenceSearch(text).found THEN FenceSearch(text).group
            ELSE IF BalancedStarts(text) # {} THEN FirstBalanced(text)
            ELSE text

\* The text is one JSON object and nothing else, written with single
\* quotes somewhere and with newlines or tabs between its parts: with
\* double quotes in place of the single ones it is a JSON document.
SingleQuotedObject(text) ==
    LET body == SelectSeq(text, NotSpace)
        n == Len(body)
    IN  /\ text # NoneText
        /\ n >= 2
        /\ body[1] = Open
        /\ body[n] = Close
        /\ \A i \in 2..(n - 1) : body[i].t = "member"
        /\ \A i \in 2..(n - 1) : body[i].quote \in {"dq", "sq", "py"}
        /\ \E i \in 2..(n - 1) : body[i].quote \in {"sq", "py"}
        /\ \E i \in 1..Len(text) : text[i] = Newline

\* The members of the object, with their keys and values
MembersOf(text) ==
    LET body == SelectSeq(text, NotSpace)
    IN  SubSeq(body, 2, Len(body) - 1)

\* C27: a call parses once, or twice when the first parse failed with a
\* parse error, and never more; a single-quoted object with newlines or
\* tabs and no fences comes back as the dictionary of its members.
C27_RepairOnce ==
    uRet.ran =>
        /\ uRet.parses \in {0, 1, 2}
        /\ uRet.parses = 2 =>
                JsonLoads(uRet.candidate) = Invalid
        /\ SingleQuotedObject(uCall.response_text) =>
                /\ uRet.parses = 2
                /\ uRet.result.type = "dict"
                /\ uRet.result.d = DictOf(MembersOf(uCall.response_text))

\* C28: when the answer of the analysis cannot be parsed even after the
\* repair, the function that called _extract_json_response hands its own
\* caller empty findings and a description that is not empty, and no
\* exception.
C28_UnparsableAnalysisDiagnosed ==
    (uRet.ran /\ Unparsable(uCall.response_text)) =>
        /\ uRet.class = "CodeAnalyzer" =>
                /\ uRet.caller.type = "dict"
                /\ uRet.caller.d["issues"] = <<>>
                /\ uRet.caller.d["summary"] # <<>>
        /\ uRet.class = "SmartContextAnalyzer" =>
                /\ uRet.caller.path = "context"
                /\ uRet.caller.errors \in {<<>>, NoIssues}
                /\ uRet.caller.description # <<>>

\* C29: every content handed to the analysis is the fetched content when
\* that has at most max_file_size characters, and otherwise its first
\* max_file_size characters followed by the marker stating its length.
C29_ContentsLimited ==
    uRet.ran =>
        \A i \in 1..Len(uRet.handed) :
            LET h == uRet.handed[i]
                n == Len(h.original)
            IN  IF h.original # NoContent /\ n > uCall.max_file_size
                THEN /\ Len(h.content) = uCall.max_file_size + 1
                     /\ \A k \in 1..uCall.max_file_size :
                            h.content[k] = h.original[k]
                     /\ h.content[uCall.max_file_size + 1] = Marker(n)
                ELSE h.content = h.original

\* C30: send_message returns and does not raise; it sends the text with
\* Markdown first, and once more, the same text with no parse mode, exactly
\* when that send failed; it returns False exactly when both sends failed.
C30_SendFallsBack ==
    /\ (uRet # NotRun /\ ~uRet.ran) =>
            /\ Len(uRet.sends) = 1
            /\ ~uRet.sends[1].delivered
    /\ uRet.ran =>
            /\ ~uRet.raised
            /\ Len(uRet.sends) \in {1, 2}
            /\ uRet.sends[1] = BotSend(uCall.message, <<"Markdown">>,
                                       uRet.sends[1].delivered)
            /\ Len(uRet.sends) = 2 <=> ~uRet.sends[1].delivered
            /\ Len(uRet.sends) = 2 =>
                    uRet.sends[2] = BotSend(uCall.message, NoneV,
                                           uRet.sends[2].delivered)
            /\ ~uRet.returned <=>
                    /\ Len(uRet.sends) = 2
                    /\ ~uRet.sends[1].delivered
                    /\ ~uRet.sends[2].delivered

\* C30 witness: a result message whose Markdown send failed and whose
\* plain resend was delivered: send_message returned True.
C30_Witness ==
    /\ uRet.ran
    /\ uCall.message.kind = "result"
    /\ Len(uRet.sends) = 2
    /\ ~uRet.sends[1].delivered
    /\ uRet.sends[2].delivered
    /\ uRet.returned


IsPrefix(s, t) == Len(s) <= Len(t) /\ s = SubSeq(t, 1, Len(s))

\* C31: what is done for a change is done in the order context discovery,
\* context fetch, batching, analysis, notification, marking, each once and
\* none left out; only the context fetch may be left out, and only when the
\* discovery asked for no file.
C31_StagesInOrder ==
    (uCall.op = "analyze_changes" /\ uRet # NotRun) =>
        \/ IsPrefix(uRet.stages,
                    <<"discovery", "fetch", "batching", "analysis",
                      "notification", "marking">>)
        \/ /\ uRet.required_files = <<>>
           /\ IsPrefix(uRet.stages,
                       <<"discovery", "batching", "analysis",
                         "notification", "marking">>)

\* C32: the modified-file record get_commit_details hands to the analysis
\* for an entry of the diff has a diff, an old content or a new content
\* that is not empty.
C32_RecordHasContent ==
    (uCall.op = "fetch" /\ uRet.ran /\ uRet.by = "get_commit_details") =>
        \E i \in 1..3 :
            /\ uRet.handed[i].kind \in {"diff", "old_content", "new_content"}
            /\ HasContent(uRet.handed[i].content)

\* C33: when a new commit went through its processing with no failure
\* (modified files found, a description returned, the Markdown send
\* delivered), then as send_message returns and the commit is marked, one
\* send_message call has been made for the commit in all and is_processed
\* finds its row.
C33_CleanRunNotifiedOnce ==
    [][\A i \in Tasks :
        (/\ task[i].pc = "send_md"
         /\ task[i].msg.kind = "result"
         /\ task'[i] = Advance(task[i])) =>
            LET key == <<repositories[i], CommitId(Head(task[i].queue))>>
            IN  /\ sent'[key] = [result |-> 1, error |-> 0]
                /\ HasRow(ledger', key)]_vars

\* The batches the claims speak of: those of the batching loop for more
\* than 3 files, else the one list of all files
BatchesFor(files) ==
    IF Len(files) > UnbatchedMax THEN BatchLoop(files, max_batch_size)
    ELSE <<files>>

\* C34: the completion calls of one analyze_changes call are one per
\* batch, in the order of the batches, each with the files of its batch;
\* the calls go on to the last batch whatever the earlier ones brought, and
\* a change of 3 files or fewer is sent in one call with all its files.
C34_OneCallPerBatch ==
    LET batches == BatchesFor(aFiles) IN
    /\ Len(aPosts) <= Len(batches)
    /\ \A i \in 1..Len(aPosts) :
            /\ aPosts[i].batch = i
            /\ aPosts[i].files = batches[i]
    /\ aOut.ran <=> (aFiles # <<>> /\ Len(aPosts) = Len(batches))
    /\ (aOut.ran /\ Len(aFiles) <= UnbatchedMax) =>
            /\ Len(aPosts) = 1
            /\ aPosts[1].files = aFiles

\* C34 witness: a change of more than 3 files in three batches; the call
\* for the first batch got a 500 and the call for the second raised, and
\* the third batch was still sent.
C34_Witness ==
    /\ aOut.ran
    /\ Len(aFiles) > UnbatchedMax
    /\ Len(aPosts) = 3
    /\ aPosts[1].response.status = 500
    /\ aPosts[2].response.status = 0
    /\ aPosts[3].files = BatchLoop(aFiles, max_batch_size)[3]

\* C35: for a change that was analysed and notified, the ledger gets the
\* row of the commit only once send_message has returned, and it has the
\* row as soon as send_message has returned, True or False alike.
C35_MarkedAfterSend ==
    (uCall.op = "analyze_changes" /\ uRet # NotRun /\ uRet.notified) =>
        LET key == <<uCall.project_path, CommitId(uCall.commit)>> IN
        /\ uRet.send_returned = "pending" => ~HasRow(ledger, key)
        /\ uRet.send_returned \in {"True", "False"} =>
                /\ HasRow(ledger, key)
                /\ uRet.stages[Len(uRet.stages)] = "marking"
                /\ uRet.stages[Len(uRet.stages) - 1] = "notification"

\* C35 witness: send_message returned False for the notification of an
\* analysed change, and the commit is in the ledger.
C35_Witness ==
    /\ uCall.op = "analyze_changes"
    /\ uRet # NotRun
    /\ uRet.notified
    /\ uRet.send_returned = "False"
    /\ uRet.desc # <<>>
    /\ HasRow(ledger, <<uCall.project_path, CommitId(uCall.commit)>>)

\* C36: when every completion call of an analyze_changes call has failed,
\* analyze_changes returns (None, None), for a change sent in batches as
\* for one sent whole, in main.py and in smart_context_analyzer.py alike.
C36_AllBatchesFailedIsFailure ==
    (aOut.ran /\ \A i \in 1..Len(aPosts) : aPosts[i].result = NonePair) =>
        /\ aOut.desc = NoneV
        /\ aOut.errors = NoneV
        /\ aOut.smart = NonePair

FilesOf(diff) == SelectSeq(diff, HasPaths)

Occurrences(s, x) == Cardinality({i \in 1..Len(s) : s[i] = x})

\* C39: get_commit_details hands on at most max_files modified files; each
\* is a file of the diff, handed on no more often than the diff has it,
\* and every file of the diff that is not handed on has a diff no longer
\* than that of every file that is.
C39_LongestDiffsKept ==
    (uCall.op = "get_commit_details" /\ uRet # NotRun /\ uCall.fetch = "ok") =>
        LET files == FilesOf(uCall.diff)
            all == [i \in 1..Len(files) |-> ModifiedFile(files[i])]
            kept == uRet.modified_files
        IN  /\ Len(kept) <= uCall.max_files
            /\ \A i \in 1..Len(kept) :
                    /\ Occurrences(all, kept[i]) >= Occurrences(kept, kept[i])
                    /\ \A j \in 1..Len(all) :
                            Occurrences(kept, all[j]) < Occurrences(all, all[j])
                                => all[j].diff <= kept[i].diff

\* C39 witness: three files, the longest diff listed last, and room for
\* two: the file with the empty diff is the one left out.
C39_Witness ==
    /\ uCall.op = "get_commit_details"
    /\ uCall.fetch = "ok"
    /\ uCall.max_files = 2
    /\ uCall.diff = <<DiffEntry("a.py", "a.py", 0),
                      DiffEntry("c.py", "c0.py", 2),
                      DiffEntry("b.py", "b.py", 2)>>
    /\ uRet # NotRun
    /\ uRet.modified_files = <<ModifiedFile(DiffEntry("c.py", "c0.py", 2)),
                               ModifiedFile(DiffEntry("b.py", "b.py", 2))>>

\* The commits of the repository, created after start_time, that have no
\* row in the ledger
UnmarkedCommits ==
    {k \in 1..remote["g/a"] :
        CreatedAt(k) > StartTime /\ ~HasRow(ledger, <<"g/a", CommitId(k)>>)}

\* C38: every commit of the monitored repository that was created after
\* start_time gets its row in the ledger in the end, whatever the number
\* of commits pushed between one poll and the next: time and again no
\* such commit is without its row.
C38_EveryCommitMarked == []<>(UnmarkedCommits = {})

====
